---- MODULE Spec2Model ----
(***************************************************************************)
(* FluxDB of dfuse-eosio: the write pipeline (NewBlock / UndoBlock /       *)
(* IrreversibleBlock), the index manager (IndexTables, getIndex, the index *)
(* cache), the read engine (ReadTabletAt, ReadSigletEntryAt) and the query *)
(* front-ends (prepareRead of the gRPC and of the HTTP server,             *)
(* GetMultiContractsTableRows).                                            *)
(***************************************************************************)
EXTENDS Integers, Sequences, FiniteSets, TLC

(***************************************************************************)
(* Bounds of the model.                                                    *)
(***************************************************************************)
\* highest block number the block source emits
MaxBlock == 3
\* number of fork switches (UndoBlock events) the block source signals
MaxFork == 1
\* number of process restarts
MaxRestart == 1
\* greatest block number of the model (the code's block numbers are uint32)
MaxUint == 255
\* workers of the pool of GetMultiContractsTableRows (64 in the code)
MaxConcurrency == 2
\* contracts in one GetMultiContractsTableRows request
MaxContracts == 3

(***************************************************************************)
(* Values.                                                                 *)
(***************************************************************************)
NoIndex == [none |-> TRUE]
NoError == [code |-> "ok"]

\* The table-key kinds of the index manager (indexing.go) and of the tablets.
TD == [collection |-> "td", contract |-> "eosio", scope |-> "s", table |-> "t"]

NewContractStateTablet(contract, scope, table) ==
    [collection |-> "cst", contract |-> contract, scope |-> scope, table |-> table]

CST == NewContractStateTablet("eosio", "s", "t")

\* NewContractTableScopeTablet(contract, table)
NewContractTableScopeTablet(contract, table) ==
    [collection |-> "ctbls", contract |-> contract, table |-> table]

CTBLS == NewContractTableScopeTablet("eosio", "t")

\* the scopes of a table: the primary keys of its table-scope tablet
ScopeNames == {"a", "b"}

\* Primary keys: 16-digit hexadecimal for table data, names for contract state.
HexKeys == <<"0000000000000001", "0000000000000002">>
NameKeys == <<"...........1", "...........2">>
\* the primary keys of one byte (account and block resource limits), as the
\* reader of one byte prints them: fmt.Sprintf("%02x", buffer[0])
ByteKeys == <<"01", "02">>

PrimKeysOf(tablet) ==
    IF tablet.collection = "td" THEN {HexKeys[i] : i \in 1..Len(HexKeys)}
    ELSE IF tablet.collection = "arl" THEN {ByteKeys[i] : i \in 1..Len(ByteKeys)}
    ELSE IF tablet.collection = "ctbls" THEN ScopeNames
    ELSE {NameKeys[i] : i \in 1..Len(NameKeys)}

Digits == <<"0", "1", "2", "3", "4", "5", "6", "7", "8", "9", "a", "b", "c", "d", "e", "f">>

HexByte(b) == Digits[(b \div 16) + 1] \o Digits[(b % 16) + 1]

\* hex.EncodeToString of a two-byte block id
EncodeToString(bytes) == HexByte(bytes[1]) \o HexByte(bytes[2])

BlockRef(num, bytes) == [num |-> num, id |-> EncodeToString(bytes)]

VARIABLES
    kvRows,            \* KV store: tablet rows, one per (tablet, block, primary key)
    kvSiglets,         \* KV store: siglet entries, one per (siglet, block)
    kvIndexes,         \* KV store: index blobs, one per (tablet, at_block_num)
    lastWrittenBlock,  \* KV store: the last-written-block marker
    headBlock,         \* head watermark
    overlay,           \* speculative log: write requests of the reversible blocks
    forkCount,         \* fork switches so far (names the block ids of a fork)
    restarts,          \* restarts so far
    lastIndexes,       \* indexCache.lastIndexes
    lastCounters,      \* indexCache.lastCounters
    scheduleIndexing,  \* indexCache.scheduleIndexing (0: not scheduled)
    batch,             \* the index blobs IndexTables has set and not flushed
    pipe,              \* position of the write task
    rd,                \* a read request of a front-end (prepareRead and after)
    mc                 \* a GetMultiContractsTableRows call

dbVars == <<kvRows, kvSiglets, kvIndexes, lastWrittenBlock, headBlock, overlay,
            forkCount, restarts, lastIndexes, lastCounters, scheduleIndexing,
            batch, pipe>>

vars == <<kvRows, kvSiglets, kvIndexes, lastWrittenBlock, headBlock, overlay,
          forkCount, restarts, lastIndexes, lastCounters, scheduleIndexing,
          batch, pipe, rd, mc>>

(***************************************************************************)
(* Rows.                                                                   *)
(***************************************************************************)
\* the account names that pay, and NA(eos.Name(payer)): the number of a name
PayerNames == <<"alice", "bob">>

NA(name) == CHOOSE v \in 1..Len(PayerNames) : PayerNames[v] = name

\* binary.BigEndian.PutUint64 into a buffer of 8 bytes
PutUint64(value) == <<0, 0, 0, 0, 0, 0, 0, value>>

\* a NewRow that gives a deletion the payload of a write
NewRowWithPayload(tablet, blockNum, primaryKey, payer, data, isDeletion) ==
    [tablet |-> tablet, blockNum |-> blockNum, primKey |-> primaryKey,
     payload |-> PutUint64(NA(payer)) \o data]

\* ContractStateTablet.NewRow: a deletion has no payload, any other row the
\* 8 bytes of the payer followed by the data.
NewRow(tablet, blockNum, primaryKey, payer, data, isDeletion) ==
    [tablet |-> tablet, blockNum |-> blockNum, primKey |-> primaryKey,
     payload |-> IF isDeletion THEN <<>> ELSE PutUint64(NA(payer)) \o data]

IsDeletion(row) == Len(row.payload) = 0

\* ContractStateRow.Payer: eos.NameToString(binary.BigEndian.Uint64(r.Payload))
Payer(row) == PayerNames[row.payload[8]]

\* ContractStateRow.Data: r.Payload[8:]
Data(row) == SubSeq(row.payload, 9, Len(row.payload))

\* ContractTableScopeTablet.NewRow: the scope is the primary key; a deletion
\* has no payload, any other row the 8 bytes of the payer
TableScopeNewRow(tablet, blockNum, scope, payer, isDeletion) ==
    [tablet |-> tablet, blockNum |-> blockNum, primKey |-> scope,
     payload |-> IF isDeletion THEN <<>> ELSE PutUint64(NA(payer))]

\* ContractTableScopeRow.Scope
Scope(row) == row.primKey

(***************************************************************************)
(* KV store.                                                               *)
(***************************************************************************)
\* batch.SetRow: one value per row key (tablet, block, primary key)
SetRow(rows, row) ==
    {x \in rows : ~(x.tablet = row.tablet /\ x.blockNum = row.blockNum
                    /\ x.primKey = row.primKey)} \cup {row}

\* a batch that holds only the first row of the request
SetOnlyFirstRow(rows, seq) ==
    IF seq = <<>> THEN rows ELSE SetRow(rows, Head(seq))

RECURSIVE SetRows(_, _)
SetRows(rows, seq) ==
    IF seq = <<>> THEN rows ELSE SetRows(SetRow(rows, Head(seq)), Tail(seq))

RECURSIVE SetSigletEntries(_, _)
SetSigletEntries(entries, seq) ==
    LET SetSigletEntry(entry) ==
            {x \in entries : ~(x.siglet = entry.siglet /\ x.blockNum = entry.blockNum)}
                \cup {entry}
    IN  IF seq = <<>> THEN entries
        ELSE SetSigletEntries(SetSigletEntry(Head(seq)), Tail(seq))

\* ScanTabletRows(first, last): the rows of the tablet whose key is in
\* [tablet:hex(first), tablet:hex(last)), that is first <= block < last
ScanTabletRows(rows, tablet, first, last) ==
    {x \in rows : x.tablet = tablet /\ first <= x.blockNum /\ x.blockNum < last}

(***************************************************************************)
(* Speculative overlay (spec 4.3).                                         *)
(***************************************************************************)
WriteRequest(blockNum, blockID, prevBlockID, tabletRows, sigletEntries) ==
    [blockNum |-> blockNum, blockID |-> blockID, prevBlockID |-> prevBlockID,
     tabletRows |-> tabletRows, sigletEntries |-> sigletEntries]

GenesisID == <<0, 0>>

\* the block id (as a string) of the tip of the chain: the last request, or LIB
TipID(log, lib) ==
    IF log = <<>> THEN lib ELSE EncodeToString(log[Len(log)].blockID)

\* append: requires wr.prev_block_id = current tip, else the request is refused
OverlayAppend(log, lib, wr) ==
    IF EncodeToString(wr.prevBlockID) = TipID(log, lib) THEN log \o <<wr>> ELSE log

\* an undo_to that keeps every request
UndoNothing(log, k) == log

\* undo_to: drops the requests after the first k
UndoTo(log, k) == SubSeq(log, 1, k)

\* a promote_to_lib that removes nothing
PromoteNothing(log, blockNum) == log

RECURSIVE PromoteToLIB(_, _)
PromoteToLIB(log, blockNum) ==
    IF log = <<>> THEN <<>>
    ELSE IF Head(log).blockNum <= blockNum THEN PromoteToLIB(Tail(log), blockNum)
    ELSE <<Head(log)>> \o PromoteToLIB(Tail(log), blockNum)

\* a fetch that is not truncated at the target block
UpToHead(log, blockNum) == log

RECURSIVE UpTo(_, _)
UpTo(log, blockNum) ==
    IF log = <<>> THEN <<>>
    ELSE IF Head(log).blockNum <= blockNum
         THEN <<Head(log)>> \o UpTo(Tail(log), blockNum)
         ELSE UpTo(Tail(log), blockNum)

\* fetch(head_id, target_block_num): the requests of the chain ending at
\* head_id, truncated at target_block_num
SpeculativeWritesFetcher(log, headID, upToBlockNum) ==
    \* position of the request of block id headID in the log, 0 when absent
    LET PositionOf == IF \E i \in 1..Len(log) : EncodeToString(log[i].blockID) = headID
                      THEN CHOOSE i \in 1..Len(log) : EncodeToString(log[i].blockID) = headID
                      ELSE 0
    IN  UpTo(SubSeq(log, 1, PositionOf), upToBlockNum)

(***************************************************************************)
(* Index manager (indexing.go).                                            *)
(***************************************************************************)
\* HexRevBlockNum orders the index keys of a tablet by descending block: the
\* greatest block number (0xFFFFFFFF in the code, MaxUint here) minus the block
RevBlockNum(blockNum) == MaxUint - blockNum

\* NewTableIndex
NewTableIndex == [AtBlockNum |-> 0, Squelched |-> 0, Map |-> <<>>]

\* indexPrimaryKeyByteCountByTableKey: 0 for a table key of unknown prefix
indexPrimaryKeyByteCountByTableKey(tableKey) ==
    CASE tableKey.collection = "al" -> 16
      [] tableKey.collection = "arl" -> 1
      [] tableKey.collection = "brl" -> 1
      [] tableKey.collection = "ka2" -> 16
      [] tableKey.collection = "td" -> 8
      [] tableKey.collection = "ts" -> 8
      [] OTHER -> 0

\* strconv.ParseUint(primaryKey, 16, bits) of writeOneUint64 and of the
\* writer of one byte
ParseUint16(primaryKey) ==
    CHOOSE v \in 1..Len(HexKeys) : HexKeys[v] = primaryKey \/ ByteKeys[v] = primaryKey

\* a MarshalBinary that reserves 12 bytes, not 16, before the entries
MarshalBinaryShortHeader(index, tableKey, order) ==
    LET primaryKeyByteCount == indexPrimaryKeyByteCountByTableKey(tableKey)
        entryByteCount == primaryKeyByteCount + 4
        PutUint32(v) == <<(v \div 16777216) % 256, (v \div 65536) % 256,
                          (v \div 256) % 256, v % 256>>
        primaryKeyWriter(pk) == IF primaryKeyByteCount = 1 THEN <<ParseUint16(pk)>>
                                ELSE <<0, 0, 0, 0, 0, 0, 0, ParseUint16(pk)>>
    IN  IF primaryKeyByteCount = 0
        THEN [err |-> [code |-> "unknown primary key byte count"]]
        ELSE [err |-> NoError,
              snapshot |->
                  [i \in 1..(entryByteCount * Len(order) + 12) |->
                      IF i <= 4 THEN PutUint32(index.Squelched)[i]
                      ELSE IF i <= 12 THEN 0
                      ELSE LET primaryKey == order[((i - 13) \div entryByteCount) + 1]
                               at == ((i - 13) % entryByteCount) + 1
                           IN  IF at <= primaryKeyByteCount
                               THEN primaryKeyWriter(primaryKey)[at]
                               ELSE PutUint32(index.Map[primaryKey])[at - primaryKeyByteCount]]]

\* TableIndex.MarshalBinary: a buffer of 16 bytes plus one entry per entry of
\* the map; the squelched count big-endian in the first 4 bytes, the next 12
\* left at zero, then for each primary key, in the order `range index.Map`
\* visits them (order), the key as its writer puts it (one byte, or
\* big.PutUint64 of the parsed key) and the block number big-endian on 4 bytes
MarshalBinary(index, tableKey, order) ==
    LET primaryKeyByteCount == indexPrimaryKeyByteCountByTableKey(tableKey)
        entryByteCount == primaryKeyByteCount + 4
        PutUint32(v) == <<(v \div 16777216) % 256, (v \div 65536) % 256,
                          (v \div 256) % 256, v % 256>>
        primaryKeyWriter(pk) == IF primaryKeyByteCount = 1 THEN <<ParseUint16(pk)>>
                                ELSE <<0, 0, 0, 0, 0, 0, 0, ParseUint16(pk)>>
    IN  IF primaryKeyByteCount = 0
        THEN [err |-> [code |-> "unknown primary key byte count"]]
        ELSE [err |-> NoError,
              snapshot |->
                  [i \in 1..(entryByteCount * Len(order) + 16) |->
                      IF i <= 4 THEN PutUint32(index.Squelched)[i]
                      ELSE IF i <= 16 THEN 0
                      ELSE LET primaryKey == order[((i - 17) \div entryByteCount) + 1]
                               at == ((i - 17) % entryByteCount) + 1
                           IN  IF at <= primaryKeyByteCount
                               THEN primaryKeyWriter(primaryKey)[at]
                               ELSE PutUint32(index.Map[primaryKey])[at - primaryKeyByteCount]]]

\* NewTableIndexFromBinary: refuses a table key of unknown kind and a buffer
\* whose length minus 16 is negative or no multiple of the entry size; reads
\* the squelched count of the first 4 bytes and one entry after the other
\* from byte 16 on, a later entry of a primary key replacing an earlier one
NewTableIndexFromBinary(tableKey, atBlockNum, buffer) ==
    LET primaryKeyByteCount == indexPrimaryKeyByteCountByTableKey(tableKey)
        entryByteCount == primaryKeyByteCount + 4
        byteCount == Len(buffer)
        Uint32(pos) == ((buffer[pos + 1] * 256 + buffer[pos + 2]) * 256
                           + buffer[pos + 3]) * 256 + buffer[pos + 4]
        \* big.Uint64 of keys that fit 4 bytes: the 4 high bytes are zero
        Uint64(pos) == Uint32(pos + 4)
        \* fmt.Sprintf("%016x", value) of readOneUint64
        Sprintf016x(value) == IF value = 0 THEN "0000000000000000" ELSE HexKeys[value]
        primaryKeyReader(pos) ==
            IF primaryKeyByteCount = 1
            THEN IF buffer[pos + 1] = 0 THEN "00" ELSE ByteKeys[buffer[pos + 1]]
            ELSE Sprintf016x(Uint64(pos))
        entries == 1..((byteCount - 16) \div entryByteCount)
        pos(e) == 16 + (e - 1) * entryByteCount
    IN  IF primaryKeyByteCount = 0
        THEN [err |-> [code |-> "unknown primary key byte count"]]
        ELSE IF (byteCount - 16) < 0 \/ (byteCount - 16) % entryByteCount # 0
        THEN [err |-> [code |-> "bytes alignment + 16 bytes metadata is off"]]
        ELSE [err |-> NoError,
              AtBlockNum |-> atBlockNum,
              Squelched |-> Uint32(0),
              Map |-> [pk \in {primaryKeyReader(pos(e)) : e \in entries} |->
                         LET last == CHOOSE e \in entries :
                                        /\ primaryKeyReader(pos(e)) = pk
                                        /\ \A o \in entries :
                                              primaryKeyReader(pos(o)) = pk => o <= e
                         IN  Uint32(pos(last) + primaryKeyByteCount)]]

IndexOf(decoded) ==
    [AtBlockNum |-> decoded.AtBlockNum, Squelched |-> decoded.Squelched,
     Map |-> decoded.Map]

\* store.FetchIndex(tableKey, prefixKey, startIndexKey): the first index key
\* of the prefix that is >= the start key
FetchIndex(indexes, tableKey, startRev) ==
    LET found == {e \in indexes : e.tableKey = tableKey /\ e.rev >= startRev}
    IN  IF found = {} THEN NoIndex
        ELSE CHOOSE e \in found : \A o \in found : e.rev <= o.rev

\* a lookup that starts at the key of the greatest block number
getIndexFromLatest(indexes, tableKey, blockNum) ==
    LET row == FetchIndex(indexes, tableKey, RevBlockNum(MaxUint))
    IN  IF row = NoIndex THEN NoIndex
        ELSE IndexOf(NewTableIndexFromBinary(tableKey, MaxUint - row.rev, row.blob))

\* FluxDB.getIndex: the persisted index of the greatest block <= blockNum
getIndex(indexes, tableKey, blockNum) ==
    LET Decode(row) ==
            IF row = NoIndex THEN NoIndex
            ELSE IndexOf(NewTableIndexFromBinary(tableKey, MaxUint - row.rev, row.blob))
    IN  Decode(FetchIndex(indexes, tableKey, RevBlockNum(blockNum)))

\* a scan callback that sets the primary key of every row, deleted or not
IndexBlockKeepingDeleted(map, rows) ==
    [pk \in (DOMAIN map) \cup {r.primKey : r \in rows} |->
        IF pk \in {r.primKey : r \in rows}
        THEN (CHOOSE r \in rows : r.primKey = pk).blockNum
        ELSE map[pk]]

\* the scan callback of IndexTables applied to the rows of one block: a row
\* without value deletes its primary key, any other sets it to its block
IndexBlock(map, rows) ==
    LET dels == {r.primKey : r \in {x \in rows : Len(x.payload) = 0}}
        sets == {r.primKey : r \in {x \in rows : Len(x.payload) # 0}}
    IN  [pk \in ((DOMAIN map) \ dels) \cup sets |->
            IF pk \in sets THEN (CHOOSE r \in rows : r.primKey = pk).blockNum
            ELSE map[pk]]

\* the scan of IndexTables, in key order: block after block
RECURSIVE IndexScan(_, _, _, _)
IndexScan(map, rows, first, last) ==
    IF first >= last THEN map
    ELSE IndexScan(IndexBlock(map, {r \in rows : r.blockNum = first}),
                   rows, first + 1, last)

\* the index IndexTables starts from: the cached one, else the persisted one
\* at or before blockNum, else an empty one
StartIndex(cached, indexes, tableKey, blockNum) ==
    IF cached # NoIndex THEN cached
    ELSE IF getIndex(indexes, tableKey, blockNum) # NoIndex
         THEN getIndex(indexes, tableKey, blockNum)
         ELSE NewTableIndex

\* a loop body whose scan stops short of the rows of the indexed block
BuildIndexBeforeBlock(cached, indexes, rows, tableKey, blockNum) ==
    LET index == StartIndex(cached, indexes, tableKey, blockNum)
        scanned == ScanTabletRows(rows, tableKey, index.AtBlockNum + 1, blockNum)
    IN  [AtBlockNum |-> blockNum,
         Squelched |-> Cardinality(scanned),
         Map |-> IndexScan(index.Map, scanned, index.AtBlockNum + 1, blockNum)]

\* a loop body that counts the entries of the map as squelched
BuildIndexCountingEntries(cached, indexes, rows, tableKey, blockNum) ==
    LET index == StartIndex(cached, indexes, tableKey, blockNum)
        scanned == ScanTabletRows(rows, tableKey, index.AtBlockNum + 1, blockNum + 1)
        map == IndexScan(index.Map, scanned, index.AtBlockNum + 1, blockNum + 1)
    IN  [AtBlockNum |-> blockNum, Squelched |-> Cardinality(DOMAIN map), Map |-> map]

\* the body of the loop of IndexTables for one scheduled table
BuildIndex(cached, indexes, rows, tableKey, blockNum) ==
    LET index == StartIndex(cached, indexes, tableKey, blockNum)
        scanned == ScanTabletRows(rows, tableKey, index.AtBlockNum + 1, blockNum + 1)
    IN  [AtBlockNum |-> blockNum,
         Squelched |-> Cardinality(scanned),
         Map |-> IndexScan(index.Map, scanned, index.AtBlockNum + 1, blockNum + 1)]

(***************************************************************************)
(* Read engine (spec 4.6).                                                 *)
(***************************************************************************)
\* a row applied without dropping the version the map holds
ApplyRowKeepingOld(work, row) ==
    IF IsDeletion(row) THEN {x \in work : x.primKey # row.primKey} ELSE work \cup {row}

\* one row applied to the working map: tombstone or overwrite
ApplyRow(work, row) ==
    IF IsDeletion(row) THEN {x \in work : x.primKey # row.primKey}
    ELSE {x \in work : x.primKey # row.primKey} \cup {row}

\* step 2: forward replay of the persisted rows, in key order
RECURSIVE ForwardReplay(_, _, _, _)
ForwardReplay(work, rows, first, last) ==
    IF first >= last THEN work
    ELSE LET here == {r \in rows : r.blockNum = first}
         IN  ForwardReplay(
                 {x \in work : \A r \in here : r.primKey # x.primKey}
                     \cup {r \in here : ~IsDeletion(r)},
                 rows, first + 1, last)

\* the rows of one write request, in their order: the last one listed wins
RECURSIVE ApplyTabletRows(_, _, _)
ApplyTabletRows(work, tablet, tabletRows) ==
    IF tabletRows = <<>> THEN work
    ELSE ApplyTabletRows(
             IF Head(tabletRows).tablet = tablet
             THEN ApplyRow(work, Head(tabletRows)) ELSE work,
             tablet, Tail(tabletRows))

\* step 3: the speculative write requests with block_num <= target, in order
RECURSIVE ApplySpeculative(_, _, _, _)
ApplySpeculative(work, tablet, blockNum, speculative) ==
    IF speculative = <<>> THEN work
    ELSE ApplySpeculative(
             IF Head(speculative).blockNum <= blockNum
             THEN ApplyTabletRows(work, tablet, Head(speculative).tabletRows)
             ELSE work,
             tablet, blockNum, Tail(speculative))

\* ReadTabletAt(tablet, block_num, speculative): the rows of the tablet
\* steps 1 and 2 from a given snapshot: one point read per entry of its map,
\* then the forward replay of the rows in (snapshot.AtBlockNum, blockNum]
ReadFromSnapshot(rows, snapshot, tablet, blockNum) ==
    \* Get: the point read of one row key; the empty set stands for NotFound
    LET GetRow(at, primaryKey) ==
            {x \in rows : x.tablet = tablet /\ x.blockNum = at /\ x.primKey = primaryKey}
        start == UNION {GetRow(snapshot.Map[pk], pk) : pk \in DOMAIN snapshot.Map}
    IN  ForwardReplay(start,
            ScanTabletRows(rows, tablet, snapshot.AtBlockNum + 1, blockNum + 1),
            snapshot.AtBlockNum + 1, blockNum + 1)

ReadTabletAt(rows, indexes, cached, tablet, blockNum, speculative) ==
    \* step 1: the most recent snapshot at or before blockNum (index-cache hit
    \* or KV reverse-index scan), else an empty one
    LET OrEmpty(index) == IF index # NoIndex THEN index ELSE NewTableIndex
        LoadSnapshot == IF cached # NoIndex /\ cached.AtBlockNum <= blockNum THEN cached
                        ELSE OrEmpty(getIndex(indexes, tablet, blockNum))
    IN  ApplySpeculative(ReadFromSnapshot(rows, LoadSnapshot, tablet, blockNum),
                         tablet, blockNum, speculative)

\* NewContractABISiglet(account)
NewContractABISiglet(account) == [collection |-> "abi", contract |-> account]

\* the entry of a siglet at a block: the packed ABI written at that block
NewSigletEntry(siglet, blockNum, packedABI) ==
    [siglet |-> siglet, blockNum |-> blockNum, payload |-> packedABI]

DataABINotFoundError(account, blockNum) ==
    [code |-> "data_abi_not_found_error", account |-> account, blockNum |-> blockNum]

\* the entries of the siglet in the speculative writes up to the target block
RECURSIVE SpeculativeEntries(_, _, _)
SpeculativeEntries(speculative, siglet, blockNum) ==
    IF speculative = <<>> THEN <<>>
    ELSE (IF Head(speculative).blockNum <= blockNum
          THEN SelectSeq(Head(speculative).sigletEntries, LAMBDA e : e.siglet = siglet)
          ELSE <<>>)
         \o SpeculativeEntries(Tail(speculative), siglet, blockNum)

\* a reverse-prefix scan that starts at the plain block number
ScanFromBlockNum(blockNum) == blockNum

\* the key at which the reverse-prefix scan of a siglet starts
SigletScanStart(blockNum) == RevBlockNum(blockNum)

\* ReadSigletEntryAt(siglet, block_num, speculative): the more recent value of
\* the overlay, else the first entry of one reverse-prefix scan from the key
\* of block_num (entries are keyed by reversed block number), else the
\* ABI-not-found error
ReadSigletEntryAt(entries, siglet, blockNum, speculative) ==
    LET recent == SpeculativeEntries(speculative, siglet, blockNum)
        found == {e \in entries : /\ e.siglet = siglet
                                  /\ RevBlockNum(e.blockNum) >= SigletScanStart(blockNum)}
    IN  IF recent # <<>> THEN [err |-> NoError, entry |-> recent[Len(recent)]]
        ELSE IF found # {}
             THEN [err |-> NoError,
                   entry |-> CHOOSE e \in found : \A o \in found :
                                 RevBlockNum(e.blockNum) <= RevBlockNum(o.blockNum)]
             ELSE [err |-> DataABINotFoundError(siglet.contract, blockNum)]

(***************************************************************************)
(* Query front-end: prepareRead (fluxdb/grpc/read.go, fluxdb/server/read.go)*)
(***************************************************************************)
NoBlock == [num |-> 0, id |-> ""]

AppBlockNumHigherThanLIBError(blockNum, lib) ==
    [code |-> "app_block_num_higher_than_lib_error", blockNum |-> blockNum, lib |-> lib]

AppBlockNumHigherThanHeadBlockError(blockNum, head, lib) ==
    [code |-> "app_block_num_higher_than_head_block_error", blockNum |-> blockNum,
     head |-> head, lib |-> lib]

\* the named results of prepareRead before any assignment, and the calls made
\* (head: fetchHeadBlock, fetched: SpeculativeWritesFetcher)
ZeroResults ==
    [chosenBlockNum |-> 0, lastWrittenBlockID |-> "", upToBlockID |-> "",
     speculativeWrites |-> <<>>, err |-> NoError, head |-> FALSE, fetched |-> FALSE]

\* a prepareRead that leaves a requested block number of 0 as it is
prepareReadZeroAsIs(blockNum, irreversibleOnly, lastWritten, head, log) ==
    [ZeroResults EXCEPT !.chosenBlockNum = blockNum, !.head = ~irreversibleOnly]

\* EOSServer.prepareRead of the HTTP front-end, from the last written block it
\* fetched, the head block it fetched and the overlay at the time of its fetch
EOSServer_prepareRead(blockNum, irreversibleOnly, lastWritten, head, log) ==
    LET lastWrittenBlockNum == lastWritten.num
    IN  IF irreversibleOnly
        THEN IF blockNum > lastWrittenBlockNum
             THEN [ZeroResults EXCEPT !.err = AppBlockNumHigherThanLIBError(blockNum, lastWrittenBlockNum)]
             ELSE [ZeroResults EXCEPT !.chosenBlockNum =
                      IF ZeroResults.chosenBlockNum = 0 THEN lastWrittenBlockNum
                      ELSE ZeroResults.chosenBlockNum]
        ELSE LET headBlockNum == head.num
                 chosenBlockNum == IF blockNum = 0 THEN headBlockNum ELSE blockNum
                 speculativeWrites == SpeculativeWritesFetcher(log, head.id, chosenBlockNum)
             IN  IF chosenBlockNum > headBlockNum
                 THEN [ZeroResults EXCEPT !.chosenBlockNum = chosenBlockNum,
                                          !.err = AppBlockNumHigherThanHeadBlockError(
                                                     chosenBlockNum, headBlockNum,
                                                     lastWrittenBlockNum),
                                          !.head = TRUE]
                 ELSE [ZeroResults EXCEPT
                          !.chosenBlockNum = chosenBlockNum,
                          !.speculativeWrites = speculativeWrites,
                          !.upToBlockID =
                              IF Len(speculativeWrites) >= 1
                              THEN EncodeToString(
                                       speculativeWrites[Len(speculativeWrites)].blockID)
                              ELSE "",
                          !.head = TRUE,
                          !.fetched = TRUE]

\* a prepareRead whose up-to block id is that of the first speculative write
prepareReadUpToFirst(blockNum, irreversibleOnly, lastWritten, head, log) ==
    LET results == EOSServer_prepareRead(blockNum, irreversibleOnly, lastWritten, head, log)
    IN  [results EXCEPT !.upToBlockID =
            IF Len(results.speculativeWrites) >= 1
            THEN EncodeToString(results.speculativeWrites[1].blockID)
            ELSE ""]

\* a prepareRead that hands no speculative write to the read
prepareReadWithoutSpeculative(blockNum, irreversibleOnly, lastWritten, head, log) ==
    [EOSServer_prepareRead(blockNum, irreversibleOnly, lastWritten, head, log)
        EXCEPT !.speculativeWrites = <<>>]

\* a prepareRead that serves an irreversible-only request as a head request
prepareReadThroughHead(blockNum, irreversibleOnly, lastWritten, head, log) ==
    EOSServer_prepareRead(blockNum, FALSE, lastWritten, head, log)

\* a prepareRead that serves every request at the head block
prepareReadAtHead(blockNum, irreversibleOnly, lastWritten, head, log) ==
    EOSServer_prepareRead(0, irreversibleOnly, lastWritten, head, log)

\* Server.prepareRead of the gRPC front-end
Server_prepareRead(blockNum, irreversibleOnly, lastWritten, head, log) ==
    LET lastWrittenBlockNum == lastWritten.num
    IN  IF irreversibleOnly
        THEN IF blockNum > lastWrittenBlockNum
             THEN [ZeroResults EXCEPT !.err = AppBlockNumHigherThanLIBError(blockNum, lastWrittenBlockNum)]
             ELSE [ZeroResults EXCEPT !.chosenBlockNum =
                      IF ZeroResults.chosenBlockNum = 0 THEN lastWrittenBlockNum
                      ELSE ZeroResults.chosenBlockNum]
        ELSE LET headBlockNum == head.num
                 chosenBlockNum == IF blockNum = 0 THEN headBlockNum ELSE blockNum
                 speculativeWrites == SpeculativeWritesFetcher(log, head.id, chosenBlockNum)
             IN  IF chosenBlockNum > headBlockNum
                 THEN [ZeroResults EXCEPT !.chosenBlockNum = chosenBlockNum,
                                          !.err = AppBlockNumHigherThanHeadBlockError(
                                                     chosenBlockNum, headBlockNum,
                                                     lastWrittenBlockNum),
                                          !.head = TRUE]
                 ELSE [ZeroResults EXCEPT
                          !.chosenBlockNum = chosenBlockNum,
                          !.speculativeWrites = speculativeWrites,
                          !.upToBlockID =
                              IF Len(speculativeWrites) >= 1
                              THEN EncodeToString(
                                       speculativeWrites[Len(speculativeWrites)].blockID)
                              ELSE "",
                          !.head = TRUE,
                          !.fetched = TRUE]

FrontEnds == {"grpc", "http"}

prepareRead(frontEnd, blockNum, irreversibleOnly, lastWritten, head, log) ==
    IF frontEnd = "grpc"
    THEN Server_prepareRead(blockNum, irreversibleOnly, lastWritten, head, log)
    ELSE EOSServer_prepareRead(blockNum, irreversibleOnly, lastWritten, head, log)

\* getMetadata (gRPC header) and newCommonGetResponse (HTTP body): the metadata
\* of a response, from the results of prepareRead the handler passes on
getMetadata(upToBlockID, lastWrittenBlockID) ==
    [up_to_block_id |-> upToBlockID, last_irreversible_block_id |-> lastWrittenBlockID]

(***************************************************************************)
(* Write pipeline (spec 4.4) and the runs of IndexTables it starts.        *)
(***************************************************************************)
BlockIDs == {<<n, f>> : n \in 0..(MaxBlock + 1), f \in 0..(MaxFork + 1)}

\* hex.DecodeString: the block id bytes of a block id string
DecodeString(id) == CHOOSE b \in BlockIDs : EncodeToString(b) = id

\* what the block source may put in the write request of a block: no row,
\* one row, or two rows of the same primary key (a write and a deletion)
RowChoices(tablets) ==
    UNION {{[tablet |-> t, primKey |-> k, isDeletion |-> d] :
               k \in PrimKeysOf(t), d \in BOOLEAN} : t \in tablets}

SingleRowInputs(tablets) == {<<>>} \cup {<<c>> : c \in RowChoices(tablets)}


Tablets == {TD, CST}

\* a second table-data tablet, and the table keys the index manager may hold
TD2 == [collection |-> "td", contract |-> "eosio", scope |-> "s", table |-> "u"]

TableKeys == Tablets \cup {TD2}

RdIdle == [pc |-> "idle"]
McIdle == [pc |-> "idle"]

InitDB ==
    /\ kvRows = {}
    /\ kvSiglets = {}
    /\ kvIndexes = {}
    /\ lastWrittenBlock = BlockRef(0, GenesisID)
    /\ headBlock = BlockRef(0, GenesisID)
    /\ overlay = <<>>
    /\ forkCount = 0
    /\ restarts = 0
    /\ lastIndexes = [t \in TableKeys |-> NoIndex]
    /\ lastCounters = [t \in TableKeys |-> 0]
    /\ scheduleIndexing = [t \in TableKeys |-> 0]
    /\ batch = {}
    /\ pipe = "ready"

\* the state after construction: an empty store, no request in flight
InitStore == InitDB /\ rd = RdIdle /\ mc = McIdle

\* NewBlock: append to the speculative overlay, update the head watermark
NewBlock(choices, sigletEntries) ==
    /\ pipe = "ready"
    /\ headBlock.num < MaxBlock
    /\ LET num == headBlock.num + 1
           RowsOf == [i \in 1..Len(choices) |->
                        IF choices[i].tablet.collection = "ctbls"
                        THEN TableScopeNewRow(choices[i].tablet, num, choices[i].primKey,
                                              "alice", choices[i].isDeletion)
                        ELSE NewRow(choices[i].tablet, num, choices[i].primKey, "alice",
                                    <<1>>, choices[i].isDeletion)]
           wr == WriteRequest(num, <<num, forkCount>>, DecodeString(headBlock.id),
                              RowsOf, sigletEntries)
       IN  /\ overlay' = OverlayAppend(overlay, lastWrittenBlock.id, wr)
           /\ headBlock' = BlockRef(num, wr.blockID)
    /\ UNCHANGED <<kvRows, kvSiglets, kvIndexes, lastWrittenBlock, forkCount, restarts,
                   lastIndexes, lastCounters, scheduleIndexing, batch, pipe>>

\* an UndoBlock that takes the head back to the genesis block when it keeps
\* no request
UndoToGenesis(k) ==
    /\ pipe = "ready"
    /\ forkCount < MaxFork
    /\ k < Len(overlay)
    /\ overlay' = UndoTo(overlay, k)
    /\ headBlock' = IF k = 0 THEN BlockRef(0, GenesisID)
                    ELSE BlockRef(overlay[k].blockNum, overlay[k].blockID)
    /\ forkCount' = forkCount + 1
    /\ UNCHANGED <<kvRows, kvSiglets, kvIndexes, lastWrittenBlock, restarts,
                   lastIndexes, lastCounters, scheduleIndexing, batch, pipe>>

\* UndoBlock: undo_to the ancestor that keeps the first k requests
UndoBlock(k) ==
    /\ pipe = "ready"
    /\ forkCount < MaxFork
    /\ k < Len(overlay)
    /\ overlay' = UndoTo(overlay, k)
    /\ headBlock' = IF k = 0 THEN lastWrittenBlock
                    ELSE BlockRef(overlay[k].blockNum, overlay[k].blockID)
    /\ forkCount' = forkCount + 1
    /\ UNCHANGED <<kvRows, kvSiglets, kvIndexes, lastWrittenBlock, restarts,
                   lastIndexes, lastCounters, scheduleIndexing, batch, pipe>>

\* IrreversibleBlock: one atomic batch with the rows, the siglet entries and
\* the last-written-block marker of the oldest reversible block; LIB advances,
\* the overlay is promoted, the index manager counts the mutations of each
\* touched tablet and schedules a snapshot of those in `scheduled` (the
\* threshold rule of shouldTriggerIndexing picks some of the touched tablets)
IrreversibleBlock(scheduled) ==
    /\ pipe = "ready"
    /\ overlay # <<>>
    /\ LET wr == Head(overlay)
           \* the tablets the write request touches, and its mutations of one
           Touched == {wr.tabletRows[i].tablet : i \in 1..Len(wr.tabletRows)}
           MutationsOf(tablet) ==
               Cardinality({i \in 1..Len(wr.tabletRows) : wr.tabletRows[i].tablet = tablet})
       IN  /\ scheduled \subseteq Touched
           /\ kvRows' = SetRows(kvRows, wr.tabletRows)
           /\ kvSiglets' = SetSigletEntries(kvSiglets, wr.sigletEntries)
           /\ lastWrittenBlock' = BlockRef(wr.blockNum, wr.blockID)
           /\ overlay' = PromoteToLIB(overlay, wr.blockNum)
           /\ lastCounters' = [t \in TableKeys |-> lastCounters[t] + MutationsOf(t)]
           /\ scheduleIndexing' = [t \in TableKeys |->
                  IF t \in scheduled THEN wr.blockNum ELSE scheduleIndexing[t]]
    /\ pipe' = "indexing"
    /\ UNCHANGED <<kvIndexes, headBlock, forkCount, restarts, lastIndexes, batch>>

\* a batch whose blobs never reach the store
SetNoIndex(indexes, blobs) == indexes

\* a batch whose index keys name the block and not the tablet
SetIndexesOfBlock(indexes, blobs) ==
    {x \in indexes : \A b \in blobs : b.rev # x.rev} \cup blobs

\* batch.SetIndex / Flush: one blob per index key (tablet, reversed block)
SetIndexes(indexes, blobs) ==
    {x \in indexes : \A b \in blobs : ~(b.tableKey = x.tableKey /\ b.rev = x.rev)}
        \cup blobs

\* IndexTables, one turn of its loop over the schedule: FlushIfFull (full says
\* whether the batch was full), the index to start from, the scan, the
\* marshalling (order: the order in which MarshalBinary ranges over the map);
\* on success the blob joins the batch, the index is cached, the
\* counter is reset and the table leaves the schedule; when marshalling fails
\* IndexTables returns the error and the batch is never flushed
IndexTable(tableKey, full) ==
    /\ pipe = "indexing"
    /\ scheduleIndexing[tableKey] # 0
    /\ full => batch # {}
    /\ LET flushed == IF full THEN SetIndexes(kvIndexes, batch) ELSE kvIndexes
           pending == IF full THEN {} ELSE batch
           index == BuildIndex(lastIndexes[tableKey], flushed, kvRows, tableKey,
                               scheduleIndexing[tableKey])
       IN  \E order \in {o \in [1..Cardinality(DOMAIN index.Map) -> DOMAIN index.Map] :
                           \A i, j \in DOMAIN o : o[i] = o[j] => i = j} :
              LET snapshot == MarshalBinary(index, tableKey, order)
              IN  /\ kvIndexes' = flushed
                  /\ IF snapshot.err # NoError
                     THEN /\ batch' = {}
                          /\ pipe' = "halted"
                          /\ lastIndexes' =
                                 IF lastIndexes[tableKey] = NoIndex THEN lastIndexes
                                 ELSE [lastIndexes EXCEPT ![tableKey] = index]
                          /\ UNCHANGED <<lastCounters, scheduleIndexing>>
                     ELSE /\ batch' = SetIndexes(pending,
                                        {[tableKey |-> tableKey,
                                          rev |-> RevBlockNum(index.AtBlockNum),
                                          blob |-> snapshot.snapshot]})
                          /\ lastIndexes' = [lastIndexes EXCEPT ![tableKey] = index]
                          /\ lastCounters' = [lastCounters EXCEPT ![tableKey] = 0]
                          /\ scheduleIndexing' = [scheduleIndexing EXCEPT ![tableKey] = 0]
                          /\ pipe' = pipe
    /\ UNCHANGED <<kvRows, kvSiglets, lastWrittenBlock, headBlock, overlay,
                   forkCount, restarts>>

\* IndexTables, after its loop: the final Flush
IndexTablesFlush ==
    /\ pipe = "indexing"
    /\ \A t \in TableKeys : scheduleIndexing[t] = 0
    /\ kvIndexes' = SetIndexes(kvIndexes, batch)
    /\ batch' = {}
    /\ pipe' = "ready"
    /\ UNCHANGED <<kvRows, kvSiglets, lastWrittenBlock, headBlock, overlay,
                   forkCount, restarts, lastIndexes, lastCounters, scheduleIndexing>>

\* IndexTables, a turn of its loop that returns an error of the store: the
\* FlushIfFull of a full batch ("flush if full"), the getIndex of a table the
\* cache does not hold ("get index"), or the scan of the rows ("read rows"),
\* which fails once its callback has handled the rows of the blocks below
\* upTo: the callback works on the index itself, the cached one on a cache
\* hit. IndexTables returns the error; its batch is never flushed
IndexTableFails(tableKey, full, failure, upTo) ==
    /\ pipe = "indexing"
    /\ scheduleIndexing[tableKey] # 0
    /\ full => batch # {}
    /\ failure = "flush if full" => full
    /\ failure = "get index" => lastIndexes[tableKey] = NoIndex
    /\ LET flushed == IF full /\ failure # "flush if full"
                      THEN SetIndexes(kvIndexes, batch) ELSE kvIndexes
           index == StartIndex(lastIndexes[tableKey], flushed, tableKey,
                               scheduleIndexing[tableKey])
           first == index.AtBlockNum + 1
           scanned == ScanTabletRows(kvRows, tableKey, first, upTo)
       IN  /\ kvIndexes' = flushed
           /\ IF failure = "read rows"
              THEN /\ first <= upTo
                   /\ upTo <= scheduleIndexing[tableKey] + 1
                   /\ lastIndexes' =
                          IF lastIndexes[tableKey] = NoIndex THEN lastIndexes
                          ELSE [lastIndexes EXCEPT ![tableKey].Map =
                                   IndexScan(index.Map, scanned, first, upTo)]
              ELSE /\ upTo = 0
                   /\ lastIndexes' = lastIndexes
    /\ batch' = {}
    /\ pipe' = "halted"
    /\ UNCHANGED <<kvRows, kvSiglets, lastWrittenBlock, headBlock, overlay,
                   forkCount, restarts, lastCounters, scheduleIndexing>>

\* IndexTables, after its loop: the final Flush returns an error, nothing of
\* the batch is written
IndexTablesFlushFails ==
    /\ pipe = "indexing"
    /\ \A t \in TableKeys : scheduleIndexing[t] = 0
    /\ batch' = {}
    /\ pipe' = "halted"
    /\ UNCHANGED <<kvRows, kvSiglets, kvIndexes, lastWrittenBlock, headBlock, overlay,
                   forkCount, restarts, lastIndexes, lastCounters, scheduleIndexing>>

\* the process stops and starts again: what it held in memory is lost
Restart ==
    /\ restarts < MaxRestart
    /\ restarts' = restarts + 1
    /\ overlay' = <<>>
    /\ headBlock' = lastWrittenBlock
    /\ lastIndexes' = [t \in TableKeys |-> NoIndex]
    /\ lastCounters' = [t \in TableKeys |-> 0]
    /\ scheduleIndexing' = [t \in TableKeys |-> 0]
    /\ batch' = {}
    /\ pipe' = "ready"
    /\ UNCHANGED <<kvRows, kvSiglets, kvIndexes, lastWrittenBlock, forkCount>>

(***************************************************************************)
(* A read request of a front-end: the calls of prepareRead, one by one,    *)
(* while the write pipeline runs.                                          *)
(***************************************************************************)
\* prepareRead, first call: FetchLastWrittenBlock; an irreversible-only
\* request returns from there
ReadStart(frontEnd, blockNum, irreversibleOnly) ==
    /\ rd.pc = "idle"
    /\ rd' = [pc |-> IF irreversibleOnly THEN "prepared" ELSE "head",
              frontEnd |-> frontEnd, blockNum |-> blockNum,
              irreversibleOnly |-> irreversibleOnly,
              lastWritten |-> lastWrittenBlock, head |-> NoBlock, log |-> <<>>]
    /\ UNCHANGED <<dbVars, mc>>

\* prepareRead, second call: fetchHeadBlock; a request above head returns
ReadFetchHead ==
    /\ rd.pc = "head"
    /\ rd' = [rd EXCEPT
                !.head = headBlock,
                !.pc = IF prepareRead(rd.frontEnd, rd.blockNum, FALSE, rd.lastWritten,
                                      headBlock, <<>>).err # NoError
                       THEN "prepared" ELSE "fetch"]
    /\ UNCHANGED <<dbVars, mc>>

\* prepareRead, third call: SpeculativeWritesFetcher on the overlay as it is
ReadFetchSpeculative ==
    /\ rd.pc = "fetch"
    /\ rd' = [rd EXCEPT !.log = overlay, !.pc = "prepared"]
    /\ UNCHANGED <<dbVars, mc>>

\* what prepareRead returned to the handler
Results(r) ==
    prepareRead(r.frontEnd, r.blockNum, r.irreversibleOnly, r.lastWritten, r.head, r.log)

\* the metadata the handler puts in its response
Metadata(r) == getMetadata(Results(r).upToBlockID, Results(r).lastWrittenBlockID)

\* the handler responds (or returns the error of prepareRead)
ReadRespond ==
    /\ rd.pc = "prepared"
    /\ rd' = RdIdle
    /\ UNCHANGED <<dbVars, mc>>

(***************************************************************************)
(* GetMultiContractsTableRows of the gRPC front-end: prepareRead, the sort *)
(* of the contracts, the pool of workers (dhammer.Nailer, which hands out  *)
(* the results in the order of its inputs) and the loop on the stream.     *)
(***************************************************************************)
\* the contract names, in the order of the strings
ContractNames == <<"a", "b", "c">>

Rank(contract) == CHOOSE i \in 1..Len(ContractNames) : ContractNames[i] = contract

\* left < right of the strings
Less(left, right) == Rank(left) < Rank(right)

RECURSIVE Insert(_, _)
Insert(sorted, contract) ==
    IF sorted = <<>> THEN <<contract>>
    ELSE IF Less(contract, Head(sorted)) THEN <<contract>> \o sorted
    ELSE <<Head(sorted)>> \o Insert(Tail(sorted), contract)

\* a request whose contracts are left in the order of the request
Unsorted(contracts) == contracts

\* sort.Slice(request.Contracts, less)
RECURSIVE SortContracts(_)
SortContracts(contracts) ==
    IF contracts = <<>> THEN <<>>
    ELSE Insert(SortContracts(Tail(contracts)), Head(contracts))

\* the response of one worker: the rows of the contract's tablet
TableRowsContractResponse(contract, blockNum, speculative) ==
    [contract |-> contract,
     rows |-> ReadTabletAt(kvRows, kvIndexes, NoIndex,
                           NewContractStateTablet(contract, "s", "t"),
                           blockNum, speculative)]

\* the handler up to the loop: prepareRead (its error ends the call), the sort,
\* PushAll, SetHeader
McStart(requested, blockNum, irreversibleOnly) ==
    /\ mc.pc = "idle"
    /\ LET pr == Server_prepareRead(blockNum, irreversibleOnly, lastWrittenBlock,
                                    headBlock, overlay)
           contracts == SortContracts(requested)
       IN  mc' = [pc |-> IF pr.err # NoError THEN "returned" ELSE "streaming",
                  err |-> IF pr.err # NoError THEN "Internal" ELSE "nil",
                  requested |-> requested,
                  contracts |-> IF pr.err # NoError THEN requested ELSE contracts,
                  work |-> IF pr.err # NoError THEN <<>>
                           ELSE [i \in 1..Len(contracts) |-> "queued"],
                  chosenBlockNum |-> pr.chosenBlockNum,
                  speculativeWrites |-> pr.speculativeWrites,
                  header |-> IF pr.err # NoError THEN <<>>
                             ELSE <<getMetadata(pr.upToBlockID, pr.lastWrittenBlockID)>>,
                  finished |-> <<>>,
                  sent |-> <<>>,
                  ctxDone |-> FALSE,
                  cancelled |-> FALSE]
    /\ UNCHANGED <<dbVars, rd>>

\* a free worker of the pool takes the next input
McWorkerStart ==
    /\ mc.pc = "streaming"
    /\ Cardinality({i \in DOMAIN mc.work : mc.work[i] = "running"}) < MaxConcurrency
    /\ \E i \in DOMAIN mc.work :
           /\ mc.work[i] = "queued"
           /\ \A j \in 1..(i - 1) : mc.work[j] # "queued"
           /\ mc' = [mc EXCEPT !.work[i] = "running"]
    /\ UNCHANGED <<dbVars, rd>>

\* a worker returns: its response, or the error of its read
McWorkerDone(i, ok) ==
    /\ mc.pc = "streaming"
    /\ i \in DOMAIN mc.work
    /\ mc.work[i] = "running"
    /\ mc' = [mc EXCEPT !.work[i] = IF ok THEN "done" ELSE "failed",
                        !.finished = Append(@, i)]
    /\ UNCHANGED <<dbVars, rd>>

\* the loop receives the next result from nailer.Out and sends it
McSend ==
    /\ mc.pc = "streaming"
    /\ Len(mc.sent) < Len(mc.contracts)
    /\ mc.work[Len(mc.sent) + 1] = "done"
    /\ mc' = [mc EXCEPT !.sent = Append(@,
                  TableRowsContractResponse(mc.contracts[Len(mc.sent) + 1],
                                            mc.chosenBlockNum, mc.speculativeWrites))]
    /\ UNCHANGED <<dbVars, rd>>

\* the loop finds nailer.Out closed (every result handed out, or a worker
\* failed) and returns nil
McCompleted ==
    /\ mc.pc = "streaming"
    /\ \/ Len(mc.sent) = Len(mc.contracts)
       \/ /\ Len(mc.sent) < Len(mc.contracts)
          /\ mc.work[Len(mc.sent) + 1] = "failed"
    /\ mc' = [mc EXCEPT !.pc = "returned"]
    /\ UNCHANGED <<dbVars, rd>>

\* the client cancels the stream: its context is done from then on, for the
\* loop and for the workers, which were handed the same context
McCancel ==
    /\ mc.pc = "streaming"
    /\ ~mc.ctxDone
    /\ mc' = [mc EXCEPT !.ctxDone = TRUE]
    /\ UNCHANGED <<dbVars, rd>>

\* a loop whose select has no case for the context
McWithoutContextCase ==
    /\ FALSE
    /\ UNCHANGED vars

\* the loop finds the context of the stream done and returns nil
McContextDone ==
    /\ mc.pc = "streaming"
    /\ mc.ctxDone
    /\ mc' = [mc EXCEPT !.pc = "returned", !.cancelled = TRUE]
    /\ UNCHANGED <<dbVars, rd>>

McReset ==
    /\ mc.pc = "returned"
    /\ mc' = McIdle
    /\ UNCHANGED <<dbVars, rd>>

(***************************************************************************)
(* The table-scope handlers: GetTableScopes of the gRPC front-end and      *)
(* listTableScopes of the HTTP front-end. A call runs against the state of *)
(* the database as it is; rd holds what the call returned.                 *)
(***************************************************************************)
\* derr.Statusf(code, ...): a status error of the given gRPC code
Statusf(code, cause) == [code |-> "status", grpcCode |-> code, cause |-> cause]

\* derr.Wrap / fmt.Errorf("...: %w", err): the error under a prefix
Wrap(err, prefix) == [code |-> "wrapped", prefix |-> prefix, cause |-> err]

DataTableNotFoundError(account, table) ==
    [code |-> "data_table_not_found_error", account |-> account, table |-> table]

DataRowNotFoundError(contract, table, scope, primaryKey) ==
    [code |-> "data_row_not_found_error", contract |-> contract, table |-> table,
     scope |-> scope, primaryKey |-> primaryKey]

\* the kind a caller sees: the code of a status error, else the kind of the
\* typed error under the wraps
RECURSIVE Kind(_)
Kind(err) ==
    IF err = NoError THEN "ok"
    ELSE IF err.code = "status"
         THEN (IF err.grpcCode = "Internal" THEN "internal"
               ELSE IF err.grpcCode = "NotFound" THEN "not_found"
               ELSE "invalid_argument")
    ELSE IF err.code = "wrapped" THEN Kind(err.cause)
    ELSE IF err.code \in {"data_abi_not_found_error", "data_table_not_found_error",
                          "data_row_not_found_error"} THEN "not_found"
    ELSE IF err.code \in {"app_block_num_higher_than_lib_error",
                          "app_block_num_higher_than_head_block_error"}
         THEN "invalid_argument"
    ELSE "internal"

\* HasSeenTableOnce(contract, table): the seen-once marker of the table, set
\* with the first row of the table that is persisted
HasSeenTableOnce(rows, contract, table) ==
    \E r \in rows : r.tablet.contract = contract /\ r.tablet.table = table

\* the orders in which the rows of a read may be handed to the caller
Enumerations(set) ==
    {order \in [1..Cardinality(set) -> set] :
        \A i, j \in DOMAIN order : i # j => order[i] # order[j]}

\* the scopes left in the order of the rows
scopesInRowOrder(tabletRows) == [i \in 1..Len(tabletRows) |-> Scope(tabletRows[i])]

\* sortedScopes: nil for no row, else the scopes of the rows, sorted ascending
sortedScopes(tabletRows) ==
    IF Len(tabletRows) = 0 THEN <<>>
    ELSE SortContracts([i \in 1..Len(tabletRows) |-> Scope(tabletRows[i])])

\* GetTableScopes (gRPC): prepareRead, ReadTabletAt on the table-scope tablet,
\* sortedScopes, HasSeenTableOnce when there is no scope, one message per scope
GetTableScopes(request, tabletRows) ==
    LET pr == Server_prepareRead(request.blockNum, FALSE, lastWrittenBlock, headBlock,
                                 overlay)
        scopes == sortedScopes(tabletRows)
        seen == HasSeenTableOnce(kvRows, request.contract, request.table)
    IN  IF pr.err # NoError
        THEN [err |-> Statusf("Internal", pr.err), stream |-> <<>>]
        ELSE IF Len(scopes) = 0 /\ ~seen
        THEN [err |-> Statusf("Internal",
                              [code |-> "table does not exist in ABI at this block height",
                               contract |-> request.contract, table |-> request.table]),
              stream |-> <<>>]
        ELSE [err |-> NoError,
              stream |-> [i \in 1..Len(scopes) |->
                            [BlockNum |-> pr.chosenBlockNum, Scope |-> scopes[i]]]]

\* listTableScopes (HTTP): prepareRead, db.ReadTableScopes, HasSeenTableOnce
\* when there is no scope
listTableScopes(request, tabletRows) ==
    LET pr == EOSServer_prepareRead(request.blockNum, FALSE, lastWrittenBlock, headBlock,
                                    overlay)
        scopes == [i \in 1..Len(tabletRows) |-> Scope(tabletRows[i])]
        seen == HasSeenTableOnce(kvRows, request.contract, request.table)
    IN  IF pr.err # NoError
        THEN [err |-> Wrap(pr.err, "unable to prepare read"), stream |-> <<>>]
        ELSE IF Len(scopes) = 0 /\ ~seen
        THEN [err |-> DataTableNotFoundError(request.contract, request.table),
              stream |-> <<>>]
        ELSE [err |-> NoError,
              stream |-> [i \in 1..Len(scopes) |->
                            [BlockNum |-> pr.chosenBlockNum, Scope |-> scopes[i]]]]

\* one call of a table-scope handler, from the request to the return; the
\* rows are those ReadTabletAt hands over at the block that prepareRead
\* chose (none when prepareRead failed), in any order
TableScopesCall(frontEnd, blockNum) ==
    /\ rd.pc = "idle"
    /\ pipe = "ready"
    /\ \E tabletRows \in Enumerations(
              LET pr == prepareRead(frontEnd, blockNum, FALSE, lastWrittenBlock,
                                    headBlock, overlay)
              IN  IF pr.err # NoError THEN {}
                  ELSE ReadTabletAt(kvRows, kvIndexes, NoIndex, CTBLS,
                                    pr.chosenBlockNum, pr.speculativeWrites)) :
          LET request == [contract |-> CTBLS.contract, table |-> CTBLS.table,
                          blockNum |-> blockNum]
              out == IF frontEnd = "grpc" THEN GetTableScopes(request, tabletRows)
                     ELSE listTableScopes(request, tabletRows)
          IN  rd' = [pc |-> "returned",
                     handler |-> IF frontEnd = "grpc" THEN "GetTableScopes"
                                 ELSE "listTableScopes",
                     frontEnd |-> frontEnd, request |-> request,
                     tabletRows |-> tabletRows, err |-> out.err, stream |-> out.stream]
    /\ UNCHANGED <<dbVars, mc>>

\* the caller has its answer
CallDone ==
    /\ rd.pc = "returned"
    /\ rd' = RdIdle
    /\ UNCHANGED <<dbVars, mc>>

(***************************************************************************)
(* The single-row handlers: readContractStateTableRow of the gRPC          *)
(* front-end, getTableRowHandler and readTableRow of the HTTP front-end.   *)
(***************************************************************************)
\* no row (a nil TabletRow, a nil Row of a response)
NilRow == [nil |-> TRUE]

\* KeyConverter.FromString: the uint64 of a key of type name
FromString(primaryKey) == CHOOSE v \in 1..Len(NameKeys) : NameKeys[v] = primaryKey

\* fluxdb.UN, KeyConverter.ToString: the name of a uint64
UN(value) == NameKeys[value]

\* eos.UnmarshalBinary / ContractABIEntry.ABI: the ABI of the packed bytes,
\* one table per element
UnmarshalABI(packedABI) == [Tables |-> {packedABI[i] : i \in DOMAIN packedABI}]

\* ABI.TableForName: the definition of the table, NilRow when it has none
TableForName(abi, table) ==
    IF table \in abi.Tables THEN [Name |-> table, Type |-> table] ELSE NilRow

\* ReadTabletRowAt: the resolution of ReadTabletAt, short-circuited to the
\* targeted primary key; NilRow when the row is absent or deleted
ReadTabletRowAt(rows, indexes, cached, tablet, blockNum, primaryKey, speculative) ==
    LET Only(found) == IF found = {} THEN NilRow ELSE CHOOSE r \in found : TRUE
    IN  Only({r \in ReadTabletAt(rows, indexes, cached, tablet, blockNum, speculative) :
                r.primKey = primaryKey})

\* db.ReadTableRow: the ABI of the account at the block and the row, if any
ReadTableRow(account, scope, table, blockNum, primaryKeyValue, speculative) ==
    LET tablet == NewContractStateTablet(account, scope, table)
        Response(abi, row) ==
            IF abi.err # NoError THEN [err |-> abi.err]
            ELSE [err |-> NoError,
                  ABI |-> [PackedABI |-> abi.entry.payload, BlockNum |-> abi.entry.blockNum],
                  Row |-> IF row = NilRow THEN NilRow
                          ELSE [Key |-> FromString(row.primKey), Payer |-> NA(Payer(row)),
                                Data |-> Data(row), BlockNum |-> row.blockNum]]
    IN  Response(ReadSigletEntryAt(kvSiglets, NewContractABISiglet(account), blockNum,
                                   speculative),
                 ReadTabletRowAt(kvRows, kvIndexes, NoIndex, tablet, blockNum,
                                 UN(primaryKeyValue), speculative))

\* readContractStateTableRow (gRPC)
readContractStateTableRow(tablet, blockNum, primaryKey, toJSON, withBlockNum, speculativeWrites) ==
    LET primaryKeyValue == FromString(primaryKey)
        tabletRow == ReadTabletRowAt(kvRows, kvIndexes, NoIndex, tablet,
                                     blockNum, UN(primaryKeyValue), speculativeWrites)
        abiEntry == ReadSigletEntryAt(kvSiglets, NewContractABISiglet(tablet.contract),
                                      blockNum, speculativeWrites)
        response == [err |-> NoError,
                     Row |-> [Key |-> primaryKey, Data |-> Data(tabletRow),
                              Payer |-> Payer(tabletRow),
                              BlockNum |-> IF withBlockNum THEN tabletRow.blockNum ELSE 0]]
    IN  IF tabletRow = NilRow
        THEN [err |-> DataRowNotFoundError(tablet.contract, tablet.table, tablet.scope,
                                           primaryKey),
              Row |-> NilRow]
        ELSE IF ~toJSON THEN response
        ELSE IF abiEntry.err # NoError
        THEN [err |-> Wrap(abiEntry.err, "read abi at"), Row |-> NilRow]
        ELSE IF TableForName(UnmarshalABI(abiEntry.entry.payload), tablet.table) = NilRow
        THEN [err |-> DataTableNotFoundError(tablet.contract, tablet.table), Row |-> NilRow]
        ELSE response

\* readTableRow (HTTP)
readTableRow(blockNum, account, table, scope, primaryKey, withBlockNum, speculativeWrites) ==
    LET primaryKeyValue == FromString(primaryKey)
        Response(resp) ==
            IF resp.err # NoError
            THEN [err |-> Wrap(resp.err, "unable to retrieve single row from database"),
                  Row |-> NilRow]
            ELSE IF TableForName(UnmarshalABI(resp.ABI.PackedABI), table) = NilRow
            THEN [err |-> DataTableNotFoundError(account, table), Row |-> NilRow]
            ELSE IF resp.Row = NilRow
            THEN [err |-> NoError, Row |-> NilRow]
            ELSE [err |-> NoError,
                  Row |-> [Key |-> UN(resp.Row.Key), Data |-> resp.Row.Data,
                           Payer |-> PayerNames[resp.Row.Payer],
                           BlockNum |-> IF withBlockNum THEN resp.Row.BlockNum ELSE 0]]
    IN  Response(ReadTableRow(account, scope, table, blockNum, primaryKeyValue,
                              speculativeWrites))

\* a validation that does not ask for the scope parameter to be present
validateWithoutScopePresence(form) ==
    LET FormValue(key) == IF key \in DOMAIN form THEN form[key] ELSE ""
        EOSNames == {"", "eosio", "s", "t"}
        BoolValues == {"true", "false"}
    IN  {key \in {"account", "table", "primary_key"} : FormValue(key) = ""}
        \cup {key \in {"account", "table", "scope"} : FormValue(key) \notin EOSNames}
        \cup {key \in {"irreversible_only"} :
                FormValue(key) # "" /\ FormValue(key) \notin BoolValues}

\* validateGetTableRowRequest: the parameters in error. A parameter is a key of
\* the form when it is in the query, r.FormValue is "" when it is not; the
\* rules: required refuses "", the other rules refuse a value that is not ""
\* and not of their kind (EOSNames: what fluxdb.eos.name and extendedName
\* accept, BoolValues: what bool accepts); then the scope must be a key of
\* r.Form
validateGetTableRowRequest(form) ==
    LET FormValue(key) == IF key \in DOMAIN form THEN form[key] ELSE ""
        EOSNames == {"", "eosio", "s", "t"}
        BoolValues == {"true", "false"}
    IN  {key \in {"account", "table", "primary_key"} : FormValue(key) = ""}
        \cup {key \in {"account", "table", "scope"} : FormValue(key) \notin EOSNames}
        \cup {key \in {"irreversible_only"} :
                FormValue(key) # "" /\ FormValue(key) \notin BoolValues}
        \cup {key \in {"scope"} : key \notin DOMAIN form}

\* getTableRowHandler (HTTP): the validation (its errors end the call), the
\* extraction of the request, prepareRead, readTableRow, the response; dbCalls
\* are the calls made on the database
getTableRowHandler(form) ==
    LET FormValue(key) == IF key \in DOMAIN form THEN form[key] ELSE ""
        errors == validateGetTableRowRequest(form)
        request == [contract |-> FormValue("account"), table |-> FormValue("table"),
                    scope |-> FormValue("scope"), primaryKey |-> FormValue("primary_key"),
                    irreversibleOnly |-> FormValue("irreversible_only") = "true",
                    blockNum |-> form.block_num, toJSON |-> TRUE, withBlockNum |-> TRUE]
        Response(req, pr, prepared, tableRowResponse) ==
            IF pr.err # NoError
            THEN [err |-> Wrap(pr.err, "prepare read failed"), Row |-> NilRow,
                  request |-> req, dbCalls |-> prepared]
            ELSE IF tableRowResponse.err # NoError
            THEN [err |-> Wrap(tableRowResponse.err, "read table row failed"),
                  Row |-> NilRow, request |-> req,
                  dbCalls |-> prepared \o <<"ReadTableRow">>]
            ELSE [err |-> NoError, Row |-> tableRowResponse.Row, request |-> req,
                  dbCalls |-> prepared \o <<"ReadTableRow">>]
        Read(req, pr) ==
            Response(req, pr,
                     <<"FetchLastWrittenBlock">>
                        \o (IF pr.head THEN <<"HeadBlock">> ELSE <<>>)
                        \o (IF pr.fetched THEN <<"SpeculativeWritesFetcher">> ELSE <<>>),
                     readTableRow(pr.chosenBlockNum, req.contract, req.table, req.scope,
                                  req.primaryKey, req.withBlockNum, pr.speculativeWrites))
        Prepare(req) ==
            Read(req, EOSServer_prepareRead(req.blockNum, req.irreversibleOnly,
                                            lastWrittenBlock, headBlock, overlay))
    IN  IF errors # {}
        THEN [err |-> [code |-> "request_validation_error", errors |-> errors],
              Row |-> NilRow, request |-> NilRow, dbCalls |-> <<>>]
        ELSE Prepare(request)

\* one call of getTableRowHandler, with the parameters of its query
HTTPTableRowCall(form) ==
    /\ rd.pc = "idle"
    /\ pipe = "ready"
    /\ LET Returned(f, out) ==
               [pc |-> "returned", handler |-> "getTableRowHandler", frontEnd |-> "http",
                form |-> f, request |-> out.request, err |-> out.err,
                Row |-> out.Row, dbCalls |-> out.dbCalls]
           Call(f) == Returned(f, getTableRowHandler(f))
       IN  rd' = Call(form)
    /\ UNCHANGED <<dbVars, mc>>

\* one call of readContractStateTableRow, with the block and the speculative
\* writes of a prepareRead that succeeded
GRPCTableRowCall(blockNum, primaryKey, toJSON) ==
    /\ rd.pc = "idle"
    /\ pipe = "ready"
    /\ LET request == [contract |-> CST.contract, table |-> CST.table,
                       scope |-> CST.scope, blockNum |-> blockNum,
                       primaryKey |-> primaryKey, toJSON |-> toJSON, withBlockNum |-> TRUE]
           pr == Server_prepareRead(blockNum, FALSE, lastWrittenBlock, headBlock, overlay)
           out == readContractStateTableRow(CST, pr.chosenBlockNum, primaryKey, toJSON,
                                            TRUE, pr.speculativeWrites)
       IN  /\ pr.err = NoError
           /\ rd' = [pc |-> "returned", handler |-> "readContractStateTableRow",
                     frontEnd |-> "grpc", request |-> request, err |-> out.err,
                     Row |-> out.Row]
    /\ UNCHANGED <<dbVars, mc>>

\* EOSServer.fetchABI, from what its prepareRead and its ReadSigletEntryAt hand
\* back: the entry is asserted to its type without a test for nil, and the
\* assertion of a nil entry panics
fetchABI(pr, read) ==
    IF pr.err # NoError THEN [err |-> Wrap(pr.err, "speculative writes")]
    ELSE IF read.err # NoError THEN [err |-> Wrap(read.err, "db read")]
    ELSE IF read.entry = NilRow THEN [panic |-> "interface conversion: interface is nil"]
    ELSE [err |-> NoError, entry |-> read.entry]

\* one call of fetchABI. A siglet without an entry at or before the block is
\* handed back by ReadSigletEntryAt as a nil entry with no error, the outcome
\* its other callers test for (server/read.go 209, grpc/read.go 110), or as
\* the ABI-not-found error
FetchABICall(account, blockNum) ==
    /\ rd.pc = "idle"
    /\ pipe = "ready"
    /\ LET pr == EOSServer_prepareRead(blockNum, FALSE, lastWrittenBlock, headBlock, overlay)
           entry == ReadSigletEntryAt(kvSiglets, NewContractABISiglet(account),
                                      pr.chosenBlockNum, pr.speculativeWrites)
       IN  \E read \in {entry} \cup (IF entry.err = NoError THEN {}
                                     ELSE {[err |-> NoError, entry |-> NilRow]}) :
              rd' = [pc |-> "returned", handler |-> "fetchABI", frontEnd |-> "http",
                     account |-> account, blockNum |-> pr.chosenBlockNum,
                     prepared |-> pr.err = NoError, read |-> read,
                     out |-> fetchABI(pr, read)]
    /\ UNCHANGED <<dbVars, mc>>

(***************************************************************************)
(* Row keys: a key is the sequence of its characters.                      *)
(***************************************************************************)
\* the characters of the keys, in the order of their bytes
Alphabet ==
    <<".", "/", "0", "1", "2", "3", "4", "5", "6", "7", "8", "9", ":",
      "a", "b", "c", "d", "e", "f", "g", "h", "i", "j", "k", "l", "m",
      "n", "o", "p", "q", "r", "s", "t", "u", "v", "w", "x", "y", "z">>

\* the characters of the names the tablets are made of
CharsOf(name) ==
    CASE name = "cst" -> <<"c", "s", "t">>
      [] name = "ctbls" -> <<"c", "t", "b", "l", "s">>
      [] name = "eosio" -> <<"e", "o", "s", "i", "o">>
      [] name = "s" -> <<"s">>
      [] name = "t" -> <<"t">>
      [] name = "a" -> <<"a">>
      [] name = "b" -> <<"b">>

\* string(t) of a tablet: fmt.Sprintf("%s/%s:%s:%s", cstPrefix, contract,
\* scope, table) and fmt.Sprintf("%s/%s:%s", ctblsPrefix, contract, table)
TabletKey(tablet) ==
    IF tablet.collection = "ctbls"
    THEN CharsOf(tablet.collection) \o <<"/">> \o CharsOf(tablet.contract) \o <<":">>
             \o CharsOf(tablet.table)
    ELSE CharsOf(tablet.collection) \o <<"/">> \o CharsOf(tablet.contract) \o <<":">>
             \o CharsOf(tablet.scope) \o <<":">> \o CharsOf(tablet.table)

HexDigits == <<"0", "1", "2", "3", "4", "5", "6", "7", "8", "9", "a", "b", "c", "d", "e", "f">>

\* HexBlockNum: the block number in 8 lowercase hexadecimal digits
HexBlockNum(blockNum) ==
    [i \in 1..8 |-> HexDigits[((blockNum \div (16 ^ (8 - i))) % 16) + 1]]

\* the block number of 8 hexadecimal digits
RECURSIVE ParseHex(_)
ParseHex(digits) ==
    IF digits = <<>> THEN 0
    ELSE 16 * ParseHex(SubSeq(digits, 1, Len(digits) - 1))
         + (CHOOSE v \in 0..15 : HexDigits[v + 1] = digits[Len(digits)])

\* a row key with the primary key ahead of the block number
KeyPrimaryKeyFirst(tablet, blockNum, primaryKey) ==
    TabletKey(tablet) \o <<"/">> \o primaryKey \o <<"/">> \o HexBlockNum(blockNum)

\* KeyForRowAt of a tablet: KeyAt(blockNum), then the primary key
KeyForRowAt(tablet, blockNum, primaryKey) ==
    TabletKey(tablet) \o <<"/">> \o HexBlockNum(blockNum) \o <<"/">> \o primaryKey

\* strings.Split(s, sep)
RECURSIVE Split(_, _)
Split(chars, sep) ==
    IF \A i \in DOMAIN chars : chars[i] # sep THEN <<chars>>
    ELSE LET at == CHOOSE i \in DOMAIN chars :
                       chars[i] = sep /\ \A j \in 1..(i - 1) : chars[j] # sep
         IN  <<SubSeq(chars, 1, at - 1)>> \o Split(SubSeq(chars, at + 1, Len(chars)), sep)

\* ContractStateTablet.Explode / ContractTableScopeTablet.Explode
Explode(tabletKey) ==
    LET segments == Split(tabletKey, "/")
        tabletParts == Split(segments[2], ":")
    IN  <<segments[1]>> \o tabletParts

\* ExplodeTabletRowKey: collection, tablet key, block number key, primary key
ExplodeTabletRowKey(key) ==
    LET segments == Split(key, "/")
    IN  IF Len(segments) # 4 THEN [err |-> [code |-> "invalid tablet row key"]]
        ELSE [err |-> NoError, collection |-> segments[1], tabletKey |-> segments[2],
              blockNumKey |-> segments[3], primaryKey |-> segments[4]]

\* ContractTableScopeTablet.NewRowFromKV: the length guard, the explosion of
\* the key, the row
TableScopeNewRowFromKV(key, value) ==
    LET exploded == ExplodeTabletRowKey(key)
    IN  IF Len(value) = 0 \/ Len(value) = 8
        THEN [err |-> [code |-> "contract table scope row value should have at 0 byte (deletion) or 8 bytes (payer)"]]
        ELSE IF exploded.err # NoError
        THEN [err |-> [code |-> "unable to explode tablet row key"]]
        ELSE [err |-> NoError,
              Collection |-> CharsOf("ctbls"),
              TabletKey |-> exploded.tabletKey,
              BlockNumKey |-> exploded.blockNumKey,
              PrimKey |-> exploded.primaryKey,
              Payload |-> value]

\* ContractStateTablet.NewRowFromKV: the length guard, the explosion of the
\* key, the row
NewRowFromKV(key, value) ==
    LET exploded == ExplodeTabletRowKey(key)
    IN  IF Len(value) < 8
        THEN [err |-> [code |-> "contract state tablet row value should have at least 8 bytes (payer)"]]
        ELSE IF exploded.err # NoError
        THEN [err |-> [code |-> "unable to explode tablet row key"]]
        ELSE [err |-> NoError,
              Collection |-> CharsOf("cst"),
              TabletKey |-> exploded.tabletKey,
              BlockNumKey |-> exploded.blockNumKey,
              PrimKey |-> exploded.primaryKey,
              Payload |-> value]

(***************************************************************************)
(* The store under the write pipeline and the index manager, table data.   *)
(***************************************************************************)
NextIndex ==
    \/ \E c \in SingleRowInputs({TD})
                \cup {p \in RowChoices({TD}) \X RowChoices({TD}) :
                        /\ p[1].tablet = p[2].tablet
                        /\ p[1].primKey = p[2].primKey
                        /\ p[1].isDeletion # p[2].isDeletion} :
          NewBlock(c, <<>>) /\ UNCHANGED <<rd, mc>>
    \/ \E k \in 0..MaxBlock : UndoBlock(k) /\ UNCHANGED <<rd, mc>>
    \/ \E s \in SUBSET {TD} : IrreversibleBlock(s) /\ UNCHANGED <<rd, mc>>
    \/ \E full \in BOOLEAN : IndexTable(TD, full) /\ UNCHANGED <<rd, mc>>
    \/ IndexTablesFlush /\ UNCHANGED <<rd, mc>>
    \/ Restart /\ UNCHANGED <<rd, mc>>

SpecIndex == InitStore /\ [][NextIndex]_vars

(***************************************************************************)
(* The store with table data and contract state.                           *)
(***************************************************************************)
NextStore ==
    \/ \E c \in SingleRowInputs(Tablets) : NewBlock(c, <<>>) /\ UNCHANGED <<rd, mc>>
    \/ \E k \in 0..MaxBlock : UndoBlock(k) /\ UNCHANGED <<rd, mc>>
    \/ \E s \in SUBSET Tablets : IrreversibleBlock(s) /\ UNCHANGED <<rd, mc>>
    \/ \E t \in Tablets, full \in BOOLEAN : IndexTable(t, full) /\ UNCHANGED <<rd, mc>>
    \/ IndexTablesFlush /\ UNCHANGED <<rd, mc>>
    \/ Restart /\ UNCHANGED <<rd, mc>>

SpecStore == InitStore /\ [][NextStore]_vars

(***************************************************************************)
(* The store with the ABI siglets of two accounts.                         *)
(***************************************************************************)
Accounts == {"eosio", "bob"}

NextSiglet ==
    \/ \E e \in {<<>>} \cup {<<NewSigletEntry(NewContractABISiglet(a), headBlock.num + 1,
                                             <<headBlock.num + 1>>)>> : a \in Accounts} :
          NewBlock(<<>>, e) /\ UNCHANGED <<rd, mc>>
    \/ \E k \in 0..MaxBlock : UndoBlock(k) /\ UNCHANGED <<rd, mc>>
    \/ IrreversibleBlock({}) /\ UNCHANGED <<rd, mc>>
    \/ IndexTablesFlush /\ UNCHANGED <<rd, mc>>
    \/ Restart /\ UNCHANGED <<rd, mc>>

SpecSiglet == InitStore /\ [][NextSiglet]_vars

(***************************************************************************)
(* Read requests of both front-ends against the running write pipeline.    *)
(***************************************************************************)
\* the write request of a block: no row, or one row of the contract state
NextRead ==
    \/ \E c \in {<<>>, <<[tablet |-> CST, primKey |-> NameKeys[1], isDeletion |-> FALSE]>>} :
           NewBlock(c, <<>>) /\ UNCHANGED <<rd, mc>>
    \/ \E k \in 0..MaxBlock : UndoBlock(k) /\ UNCHANGED <<rd, mc>>
    \/ IrreversibleBlock({}) /\ UNCHANGED <<rd, mc>>
    \/ IndexTablesFlush /\ UNCHANGED <<rd, mc>>
    \/ \E fe \in FrontEnds, n \in 0..(MaxBlock + 1), irr \in BOOLEAN : ReadStart(fe, n, irr)
    \/ ReadFetchHead
    \/ ReadFetchSpeculative
    \/ ReadRespond

SpecRead == InitStore /\ [][NextRead]_vars

(***************************************************************************)
(* A read of the gRPC front-end, from prepareRead to its response, while   *)
(* the write pipeline appends, undoes, persists and indexes blocks that    *)
(* write or delete one row of the table data.                              *)
(***************************************************************************)
NextStable ==
    \/ \E c \in {<<>>} \cup {<<[tablet |-> TD, primKey |-> HexKeys[1], isDeletion |-> d]>> :
                               d \in BOOLEAN} :
          NewBlock(c, <<>>) /\ UNCHANGED <<rd, mc>>
    \/ \E k \in 0..MaxBlock : UndoBlock(k) /\ UNCHANGED <<rd, mc>>
    \/ \E s \in SUBSET {TD} : IrreversibleBlock(s) /\ UNCHANGED <<rd, mc>>
    \/ IndexTable(TD, FALSE) /\ UNCHANGED <<rd, mc>>
    \/ IndexTablesFlush /\ UNCHANGED <<rd, mc>>
    \/ \E n \in 1..MaxBlock : ReadStart("grpc", n, FALSE)
    \/ ReadFetchHead
    \/ ReadFetchSpeculative
    \/ ReadRespond

SpecStable == InitStore /\ [][NextStable]_vars

(***************************************************************************)
(* GetMultiContractsTableRows calls against a store at rest.               *)
(***************************************************************************)
RECURSIVE SeqsOf(_, _)
SeqsOf(set, n) ==
    IF n = 0 THEN {<<>>}
    ELSE SeqsOf(set, n - 1)
         \cup {Append(q, x) : q \in {p \in SeqsOf(set, n - 1) : Len(p) = n - 1}, x \in set}

NextMulti ==
    \/ \E requested \in SeqsOf({ContractNames[i] : i \in 1..Len(ContractNames)}, MaxContracts),
          n \in 0..1, irr \in BOOLEAN :
           McStart(requested, n, irr)
    \/ McWorkerStart
    \/ \E i \in 1..MaxContracts, ok \in BOOLEAN : McWorkerDone(i, ok)
    \/ McSend
    \/ McCompleted
    \/ McCancel
    \/ McContextDone
    \/ McReset

SpecMulti == InitStore /\ [][NextMulti]_vars

\* the goroutine of the handler keeps running: its loop takes a case of its
\* select whenever one is ready; nothing is assumed of the workers
SpecMultiLive == SpecMulti /\ WF_vars(McSend \/ McCompleted \/ McContextDone)

(***************************************************************************)
(* The table-scope handlers over the write pipeline: blocks that add or    *)
(* remove a scope of the table.                                            *)
(***************************************************************************)
NextScopes ==
    \/ \E choices \in SingleRowInputs({CTBLS}) :
          rd.pc = "idle" /\ NewBlock(choices, <<>>) /\ UNCHANGED <<rd, mc>>
    \/ \E k \in 0..MaxBlock : rd.pc = "idle" /\ UndoBlock(k) /\ UNCHANGED <<rd, mc>>
    \/ rd.pc = "idle" /\ IrreversibleBlock({}) /\ UNCHANGED <<rd, mc>>
    \/ rd.pc = "idle" /\ IndexTablesFlush /\ UNCHANGED <<rd, mc>>
    \/ \E frontEnd \in FrontEnds : \E blockNum \in 0..(MaxBlock + 1) :
          TableScopesCall(frontEnd, blockNum)
    \/ CallDone

SpecScopes == InitStore /\ [][NextScopes]_vars

(***************************************************************************)
(* The single-row handlers over the write pipeline: blocks that write or   *)
(* delete one row of the contract-state tablet and blocks that set the ABI *)
(* of its contract.                                                        *)
(***************************************************************************)
\* no ABI, or the ABI of the contract, which defines the table
ABIInputs(blockNum) ==
    {<<>>, <<NewSigletEntry(NewContractABISiglet(CST.contract), blockNum, <<CST.table>>)>>}

NextRow ==
    \/ \E choices \in {<<>>} \cup {<<[tablet |-> CST, primKey |-> NameKeys[1],
                                       isDeletion |-> d]>> : d \in BOOLEAN} :
          \E e \in ABIInputs(headBlock.num + 1) :
             rd.pc = "idle" /\ NewBlock(choices, e) /\ UNCHANGED <<rd, mc>>
    \/ \E k \in 0..MaxBlock : rd.pc = "idle" /\ UndoBlock(k) /\ UNCHANGED <<rd, mc>>
    \/ rd.pc = "idle" /\ IrreversibleBlock({}) /\ UNCHANGED <<rd, mc>>
    \/ rd.pc = "idle" /\ IndexTablesFlush /\ UNCHANGED <<rd, mc>>
    \/ \E blockNum \in 0..(MaxBlock + 1) :
          HTTPTableRowCall([account |-> CST.contract, table |-> CST.table,
                            scope |-> CST.scope, primary_key |-> NameKeys[1],
                            block_num |-> blockNum])
    \/ \E blockNum \in 0..(MaxBlock + 1) : \E toJSON \in BOOLEAN :
          GRPCTableRowCall(blockNum, NameKeys[1], toJSON)
    \/ \E blockNum \in 0..(MaxBlock + 1) : FetchABICall(CST.contract, blockNum)
    \/ CallDone

SpecRow == InitStore /\ [][NextRow]_vars

(***************************************************************************)
(* getTableRowHandler with any query: each parameter absent, empty, well   *)
(* formed or not, over a store with one row and the ABI of its table.      *)
(***************************************************************************)
NextForm ==
    \/ \E d \in BOOLEAN :
          /\ rd.pc = "idle"
          /\ \E e \in ABIInputs(headBlock.num + 1) :
                 NewBlock(<<[tablet |-> CST, primKey |-> NameKeys[1], isDeletion |-> d]>>, e)
          /\ UNCHANGED <<rd, mc>>
    \/ rd.pc = "idle" /\ IrreversibleBlock({}) /\ UNCHANGED <<rd, mc>>
    \/ rd.pc = "idle" /\ IndexTablesFlush /\ UNCHANGED <<rd, mc>>
    \/ \E c \in [account : {"<absent>", "", "eosio", "EOSIO!"},
                 table : {"<absent>", "t", "T!"},
                 scope : {"<absent>", "", "s", "S!"},
                 primary_key : {"<absent>", "", NameKeys[1]},
                 irreversible_only : {"<absent>", "true", "maybe"}] :
          HTTPTableRowCall([key \in {k \in DOMAIN c : c[k] # "<absent>"} \cup {"block_num"} |->
                               IF key = "block_num" THEN 0 ELSE c[key]])
    \/ CallDone

SpecForm == InitStore /\ [][NextForm]_vars

(***************************************************************************)
(* The binary form of a table index: MarshalBinary, then                   *)
(* NewTableIndexFromBinary, on the indexes of each kind of tablet.         *)
(***************************************************************************)
\* index.MarshalBinary(ctx, tableKey)
Marshal ==
    /\ rd.pc = "index"
    /\ \E order \in {o \in [1..Cardinality(DOMAIN rd.index.Map) -> DOMAIN rd.index.Map] :
                       \A i, j \in DOMAIN o : o[i] = o[j] => i = j} :
          rd' = [pc |-> "marshalled", tableKey |-> rd.tableKey, index |-> rd.index,
                 snapshot |-> MarshalBinary(rd.index, rd.tableKey, order)]
    /\ UNCHANGED <<dbVars, mc>>

\* NewTableIndexFromBinary(ctx, tableKey, atBlockNum, snapshot)
Unmarshal ==
    /\ rd.pc = "marshalled"
    /\ rd.snapshot.err = NoError
    /\ rd' = [pc |-> "unmarshalled", tableKey |-> rd.tableKey, index |-> rd.index,
              snapshot |-> rd.snapshot,
              decoded |-> NewTableIndexFromBinary(rd.tableKey, rd.index.AtBlockNum,
                                                  rd.snapshot.snapshot)]
    /\ UNCHANGED <<dbVars, mc>>

\* NewTableIndexFromBinary(ctx, tableKey, atBlockNum, buffer) of a buffer of
\* any length
UnmarshalBuffer ==
    /\ rd.pc = "buffer"
    /\ rd' = [pc |-> "decoded", tableKey |-> rd.tableKey, buffer |-> rd.buffer,
              decoded |-> NewTableIndexFromBinary(rd.tableKey, 1, rd.buffer)]
    /\ UNCHANGED <<dbVars, mc>>


(***************************************************************************)
(* The keys of two rows of one tablet: KeyForRowAt, then the explosion of  *)
(* the key.                                                                *)
(***************************************************************************)
\* the keys of the two rows
RowKeys ==
    /\ rd.pc = "rows"
    /\ rd' = [rd EXCEPT !.pc = "keys"]
              @@ [key |-> KeyForRowAt(rd.tablet, rd.blockNum, rd.primaryKey),
                  otherKey |-> KeyForRowAt(rd.tablet, rd.otherBlockNum,
                                           rd.otherPrimaryKey)]
    /\ UNCHANGED <<dbVars, mc>>

\* the first key, exploded
ExplodeKey ==
    /\ rd.pc = "keys"
    /\ rd' = [rd EXCEPT !.pc = "exploded"]
              @@ [exploded |-> ExplodeTabletRowKey(rd.key)]
    /\ UNCHANGED <<dbVars, mc>>


(***************************************************************************)
(* The index manager over two table-data tablets: blocks that write a row  *)
(* of one of them, and the snapshots IndexTables persists.                 *)
(***************************************************************************)
\* indexCache.GetIndex by a reader, while the write task runs: the pointer
\* the cache holds for the table (nil sends the reader to the store), kept
\* with what it pointed to when the reader got it. The cache hands out the
\* pointer itself, and a later IndexTables that finds the table in the cache
\* works on that same TableIndex, so what the pointer designates is at every
\* moment of the run what the cache holds for the table
ReaderGetIndex(tableKey) ==
    /\ rd.pc = "idle"
    /\ lastIndexes[tableKey] # NoIndex
    /\ rd' = [pc |-> "returned", handler |-> "GetIndex", tableKey |-> tableKey,
              run |-> restarts, index |-> lastIndexes[tableKey]]
    /\ UNCHANGED <<dbVars, mc>>

NextLookup ==
    \/ \E c \in {<<>>} \cup {<<[tablet |-> t, primKey |-> HexKeys[1], isDeletion |-> d]>> :
                               t \in {TD, TD2}, d \in BOOLEAN} :
          NewBlock(c, <<>>) /\ UNCHANGED <<rd, mc>>
    \/ \E s \in SUBSET {TD, TD2} : IrreversibleBlock(s) /\ UNCHANGED <<rd, mc>>
    \/ \E t \in {TD, TD2}, full \in BOOLEAN : IndexTable(t, full) /\ UNCHANGED <<rd, mc>>
    \/ IndexTablesFlush /\ UNCHANGED <<rd, mc>>
    \/ Restart /\ UNCHANGED <<rd, mc>>
    \/ \E t \in {TD, TD2} : ReaderGetIndex(t)
    \/ CallDone

SpecLookup == InitStore /\ [][NextLookup]_vars

(***************************************************************************)
(* The runs of IndexTables over two table-data tablets that one block may  *)
(* both touch, with the errors the store may return to IndexTables.        *)
(***************************************************************************)
NextTables ==
    \/ \E c \in {<<>>,
                 <<[tablet |-> TD, primKey |-> HexKeys[1], isDeletion |-> FALSE]>>,
                 <<[tablet |-> TD, primKey |-> HexKeys[1], isDeletion |-> TRUE]>>,
                 <<[tablet |-> TD, primKey |-> HexKeys[1], isDeletion |-> FALSE],
                   [tablet |-> TD2, primKey |-> HexKeys[1], isDeletion |-> FALSE]>>} :
          NewBlock(c, <<>>) /\ UNCHANGED <<rd, mc>>
    \/ \E s \in SUBSET {TD, TD2} : IrreversibleBlock(s) /\ UNCHANGED <<rd, mc>>
    \/ \E t \in {TD, TD2}, full \in BOOLEAN : IndexTable(t, full) /\ UNCHANGED <<rd, mc>>
    \/ \E t \in {TD, TD2}, full \in BOOLEAN, upTo \in 0..(MaxBlock + 1) :
          \E failure \in {"flush if full", "get index", "read rows"} :
             IndexTableFails(t, full, failure, upTo) /\ UNCHANGED <<rd, mc>>
    \/ IndexTablesFlush /\ UNCHANGED <<rd, mc>>
    \/ IndexTablesFlushFails /\ UNCHANGED <<rd, mc>>
    \/ Restart /\ UNCHANGED <<rd, mc>>

SpecTables == InitStore /\ [][NextTables]_vars

(***************************************************************************)
(* The stored form of the table-scope rows: the rows of NewRow, stored and *)
(* rebuilt by NewRowFromKV, and stored values of other lengths.            *)
(***************************************************************************)
\* the row is written: its key and its value
StoreRow ==
    /\ rd.pc = "row"
    /\ rd' = [pc |-> "kv", row |-> rd.row,
              key |-> KeyForRowAt(rd.row.tablet, rd.row.blockNum, CharsOf(rd.row.primKey)),
              value |-> rd.row.payload]
    /\ UNCHANGED <<dbVars, mc>>

\* the stored row is read back: NewRowFromKV
RebuildRow ==
    /\ rd.pc = "kv"
    /\ rd' = [rd EXCEPT !.pc = "rebuilt"]
              @@ [rebuilt |-> TableScopeNewRowFromKV(rd.key, rd.value)]
    /\ UNCHANGED <<dbVars, mc>>

\* a row of the contract-state tablet is stored under its key with its
\* payload as the value and read back: NewRowFromKV
RebuildStateRow ==
    /\ rd.pc = "state row"
    /\ LET key == KeyForRowAt(rd.row.tablet, rd.row.blockNum, rd.row.primKey)
       IN  rd' = [pc |-> "state rebuilt", row |-> rd.row, payer |-> rd.payer,
                  data |-> rd.data, isDeletion |-> rd.isDeletion, key |-> key,
                  value |-> rd.row.payload,
                  rebuilt |-> NewRowFromKV(key, rd.row.payload)]
    /\ UNCHANGED <<dbVars, mc>>

\* the codecs, each on its inputs
\* an indexing rule whose thresholds on the rows of the table are reached at
\* the threshold itself
shouldTriggerIndexingAtThreshold(cache, table) ==
    LET mutatedRowsCount == cache.lastCounters[table]
        lastIndex == cache.lastIndexes[table]
        tableRowsCount == Cardinality(DOMAIN lastIndex.Map)
    IN  IF mutatedRowsCount < 1000 THEN FALSE
        ELSE IF lastIndex = NoIndex THEN TRUE
        ELSE IF tableRowsCount >= 50000 /\ mutatedRowsCount < 5000 THEN FALSE
        ELSE IF tableRowsCount >= 100000 /\ mutatedRowsCount < 10000 THEN FALSE
        ELSE TRUE

\* an indexing rule that never indexes a table of more than 100000 rows
shouldTriggerIndexingNeverTheLargest(cache, table) ==
    LET mutatedRowsCount == cache.lastCounters[table]
        lastIndex == cache.lastIndexes[table]
        tableRowsCount == Cardinality(DOMAIN lastIndex.Map)
    IN  IF mutatedRowsCount < 1000 THEN FALSE
        ELSE IF lastIndex = NoIndex THEN TRUE
        ELSE IF tableRowsCount > 50000 /\ mutatedRowsCount < 5000 THEN FALSE
        ELSE IF tableRowsCount > 100000 THEN FALSE
        ELSE TRUE

\* indexCache.shouldTriggerIndexing: the space between the indexes of a table
shouldTriggerIndexing(cache, table) ==
    LET mutatedRowsCount == cache.lastCounters[table]
        lastIndex == cache.lastIndexes[table]
        tableRowsCount == Cardinality(DOMAIN lastIndex.Map)
    IN  IF mutatedRowsCount < 1000 THEN FALSE
        ELSE IF lastIndex = NoIndex THEN TRUE
        ELSE IF tableRowsCount > 50000 /\ mutatedRowsCount < 5000 THEN FALSE
        ELSE IF tableRowsCount > 100000 /\ mutatedRowsCount < 10000 THEN FALSE
        ELSE TRUE

\* shouldTriggerIndexing on an index cache that holds the counter of the
\* table and, when cached, an index of the table with that many rows
TriggerIndexing ==
    /\ rd.pc = "cache"
    /\ rd' = [pc |-> "decided", count |-> rd.count, cached |-> rd.cached,
              rows |-> rd.rows,
              trigger |-> shouldTriggerIndexing(
                  [lastCounters |-> [t \in {TD} |-> rd.count],
                   lastIndexes |-> [t \in {TD} |->
                       IF rd.cached
                       THEN [AtBlockNum |-> 1, Squelched |-> 0,
                             Map |-> [pk \in 1..rd.rows |-> 1]]
                       ELSE NoIndex]],
                  TD)]
    /\ UNCHANGED <<dbVars, mc>>

(***************************************************************************)
(* The index cache of one table under the write pipeline: the mutations of *)
(* the irreversible blocks are counted, the rule decides, the table is     *)
(* scheduled, and the snapshot built for it resets the counter.            *)
(***************************************************************************)
MaxCount == 14000

\* newIndexCache: no counter, no cached index, nothing scheduled
InitSchedule ==
    /\ InitDB
    /\ rd = [pc |-> "counting", count |-> 0, cached |-> FALSE, rows |-> 0,
             scheduled |-> FALSE]
    /\ mc = McIdle

\* the n rows of the table in one irreversible block: IncCount for each, then
\* ScheduleIndex when shouldTriggerIndexing says so
CountMutations(n) ==
    /\ rd.pc = "counting"
    /\ rd.count + n <= MaxCount
    /\ LET cache == [lastCounters |-> [t \in {TD} |-> rd.count + n],
                     lastIndexes |-> [t \in {TD} |->
                         IF rd.cached
                         THEN [AtBlockNum |-> 1, Squelched |-> 0,
                               Map |-> [pk \in 1..rd.rows |-> 1]]
                         ELSE NoIndex]]
       IN  rd' = [rd EXCEPT !.count = rd.count + n,
                            !.scheduled = rd.scheduled \/ shouldTriggerIndexing(cache, TD)]
    /\ UNCHANGED <<dbVars, mc>>

\* the end of the turn of a scheduled table in IndexTables: CacheIndex of the
\* snapshot built, of some number of rows, ResetCounter, and the table leaves
\* the schedule
ResetCounter(rows) ==
    /\ rd.pc = "counting"
    /\ rd.scheduled
    /\ rd' = [rd EXCEPT !.count = 0, !.cached = TRUE, !.rows = rows, !.scheduled = FALSE]
    /\ UNCHANGED <<dbVars, mc>>

NextSchedule ==
    \/ \E n \in {999, 1000, 4000} : CountMutations(n)
    \/ \E rows \in {0, 50001, 100001} : ResetCounter(rows)

\* the table keeps receiving mutations: the write pipeline, one task that
\* runs on, keeps counting the rows of the blocks it writes
SpecScheduleLive == InitSchedule /\ [][NextSchedule]_vars /\ WF_vars(\E n \in {999, 1000, 4000} : CountMutations(n))

InitCodec ==
    /\ InitDB
    /\ rd \in (UNION {{[pc |-> "index", tableKey |-> t,
                          index |-> [AtBlockNum |-> a, Squelched |-> q, Map |-> m]] :
                            q \in {0, 1, 16909060},
                            m \in UNION {[keys -> {1, a}] : keys \in SUBSET PrimKeysOf(t)}} :
                        t \in {TD, CST, CTBLS, [collection |-> "arl", account |-> "eosio"]},
                        a \in (1..MaxBlock) \cup {66051}})
       \cup {[pc |-> "buffer", tableKey |-> t, buffer |-> [i \in 1..l |-> 0]] :
                     t \in {TD, CST, [collection |-> "arl", account |-> "eosio"]},
                     l \in 0..41}
       \cup {[pc |-> "rows", tablet |-> t, blockNum |-> n, primaryKey |-> k,
                   otherBlockNum |-> on, otherPrimaryKey |-> ok] :
                     t \in {CST, CTBLS},
                     n \in {0, 1, 9, 10, 15, 16, 159, 160, 255, 256, 65535, 268435456},
                     k \in {<<"k", "e", "y">>, <<".", ".", "1">>, <<"a">>},
                     on \in {0, 1, 9, 10, 15, 16, 159, 160, 255, 256, 65535, 268435456},
                     ok \in {<<"k", "e", "y">>, <<".", ".", "1">>, <<"a">>}}
       \cup {[pc |-> "row",
                   row |-> TableScopeNewRow(CTBLS, n, scope, PayerNames[p], d)] :
                     n \in 1..MaxBlock, scope \in ScopeNames, p \in DOMAIN PayerNames,
                     d \in BOOLEAN}
       \cup {[pc |-> "kv",
                   key |-> KeyForRowAt(CTBLS, n, CharsOf(scope)),
                   value |-> [i \in 1..l |-> 0]] :
                     n \in 1..MaxBlock, scope \in ScopeNames, l \in {1, 4, 7, 9, 16}}
       \cup {[pc |-> "state row", payer |-> PayerNames[p], data |-> data, isDeletion |-> d,
                   row |-> NewRow(CST, n, k, PayerNames[p], data, d)] :
                     n \in 1..MaxBlock, k \in {<<"k", "e", "y">>, <<".", ".", "1">>},
                     p \in DOMAIN PayerNames, data \in {<<>>, <<7>>, <<7, 9>>},
                     d \in BOOLEAN}
       \cup {[pc |-> "cache", count |-> c, cached |-> b, rows |-> n] :
                     c \in {0, 999, 1000, 4999, 5000, 9999, 10000},
                     b \in BOOLEAN,
                     n \in {0, 50000, 50001, 100000, 100001}}
    /\ mc = McIdle

NextCodec ==
    \/ Marshal \/ Unmarshal \/ UnmarshalBuffer
    \/ RowKeys \/ ExplodeKey
    \/ StoreRow \/ RebuildRow \/ RebuildStateRow
    \/ TriggerIndexing

SpecCodec == InitCodec /\ [][NextCodec]_vars

(***************************************************************************)
(* The write pipeline on the contract-state tablet: write requests of up   *)
(* to two rows and of an ABI, the snapshot of the tablet, which fails to   *)
(* marshal and halts the pipeline, and the restart of the process.         *)
(***************************************************************************)
NextBatch ==
    \/ \E choices \in
             {<<>>,
              <<[tablet |-> CST, primKey |-> NameKeys[1], isDeletion |-> FALSE]>>,
              <<[tablet |-> CST, primKey |-> NameKeys[1], isDeletion |-> TRUE]>>,
              <<[tablet |-> CST, primKey |-> NameKeys[1], isDeletion |-> FALSE],
                [tablet |-> CST, primKey |-> NameKeys[2], isDeletion |-> FALSE]>>} :
          \E e \in ABIInputs(headBlock.num + 1) :
             NewBlock(choices, e) /\ UNCHANGED <<rd, mc>>
    \/ \E k \in 0..MaxBlock : UndoBlock(k) /\ UNCHANGED <<rd, mc>>
    \/ \E s \in SUBSET {CST} : IrreversibleBlock(s) /\ UNCHANGED <<rd, mc>>
    \/ \E full \in BOOLEAN : IndexTable(CST, full) /\ UNCHANGED <<rd, mc>>
    \/ IndexTablesFlush /\ UNCHANGED <<rd, mc>>
    \/ Restart /\ UNCHANGED <<rd, mc>>

SpecBatch == InitStore /\ [][NextBatch]_vars

(***************************************************************************)
(* Properties of the index manager.                                        *)
(***************************************************************************)
\* the snapshots of a tablet IndexTables has produced: flushed to the store,
\* set in the batch, or cached
SnapshotsOf(tablet) ==
    {IndexOf(NewTableIndexFromBinary(tablet, MaxUint - e.rev, e.blob)) :
        e \in {x \in kvIndexes \cup batch : x.tableKey = tablet}}
    \cup ({lastIndexes[tablet]} \ {NoIndex})

\* the primary_key -> block_num map of a set of live rows
TabletMap(work) ==
    [pk \in {r.primKey : r \in work} |-> (CHOOSE r \in work : r.primKey = pk).blockNum]

RECURSIVE PersistAll(_, _)
PersistAll(rows, log) ==
    IF log = <<>> THEN rows
    ELSE PersistAll(SetRows(rows, Head(log).tabletRows), Tail(log))

\* C1: for every tablet T and every target block N with LIB <= N <= head, the
\* read of T at N with the live speculative overlay (as the fetcher returns it,
\* and as prepareRead of either front-end hands it to the read) returns the
\* rows that ReadTabletAt(T, N, []) returns once every write request of the
\* overlay is persisted.
OverlayReadIsPersistedRead ==
    \A t \in Tablets : \A n \in lastWrittenBlock.num..headBlock.num :
        LET persisted == PersistAll(kvRows, overlay)
            live == SpeculativeWritesFetcher(overlay, headBlock.id, n)
        IN  /\ ReadTabletAt(kvRows, kvIndexes, lastIndexes[t], t, n, live)
                 = ReadTabletAt(persisted, kvIndexes, lastIndexes[t], t, n, <<>>)
            /\ n # 0 => \A fe \in FrontEnds :
                 LET pr == prepareRead(fe, n, FALSE, lastWrittenBlock, headBlock, overlay)
                 IN  /\ pr.err = NoError
                     /\ pr.chosenBlockNum = n
                     /\ ReadTabletAt(kvRows, kvIndexes, lastIndexes[t], t,
                                     pr.chosenBlockNum, pr.speculativeWrites)
                          = ReadTabletAt(persisted, kvIndexes, lastIndexes[t], t, n, <<>>)

\* a target block strictly between LIB and head at which the overlay changes
\* what the store alone holds, and after which the overlay changes it again
OverlayChangesRead ==
    \E t \in Tablets : \E n \in (lastWrittenBlock.num + 1)..(headBlock.num - 1) :
        LET live == SpeculativeWritesFetcher(overlay, headBlock.id, n)
        IN  /\ ReadTabletAt(kvRows, kvIndexes, lastIndexes[t], t, n, live)
                 # ReadTabletAt(kvRows, kvIndexes, lastIndexes[t], t, n, <<>>)
            /\ ReadTabletAt(kvRows, kvIndexes, lastIndexes[t], t, n, live)
                 # ReadTabletAt(kvRows, kvIndexes, lastIndexes[t], t, headBlock.num, overlay)
            /\ ReadTabletAt(kvRows, kvIndexes, lastIndexes[t], t, n, <<>>) # {}

\* the versions of a primary key in the speculative writes passed to a read,
\* in their order, up to the target block
RECURSIVE SpeculativeVersions(_, _, _, _)
SpeculativeVersions(speculative, tablet, primaryKey, blockNum) ==
    IF speculative = <<>> THEN <<>>
    ELSE (IF Head(speculative).blockNum <= blockNum
          THEN SelectSeq(Head(speculative).tabletRows,
                         LAMBDA r : r.tablet = tablet /\ r.primKey = primaryKey)
          ELSE <<>>)
         \o SpeculativeVersions(Tail(speculative), tablet, primaryKey, blockNum)

\* the latest version of a primary key at or before the target block, as a
\* set: empty when the key has no version
LatestVersion(tablet, primaryKey, blockNum, speculative) ==
    LET spec == SpeculativeVersions(speculative, tablet, primaryKey, blockNum)
        stored == {r \in kvRows : r.tablet = tablet /\ r.primKey = primaryKey
                                  /\ r.blockNum <= blockNum}
    IN  IF spec # <<>> THEN {spec[Len(spec)]}
        ELSE {r \in stored : \A o \in stored : o.blockNum <= r.blockNum}

\* the row NewRow makes for a deletion
IsTombstone(row) ==
    row = NewRow(row.tablet, row.blockNum, row.primKey, "alice", <<1>>, TRUE)

SigletReadIsGreatestAtOrBefore ==
    \A a \in Accounts : \A n \in 0..(MaxBlock + 1) :
        LET siglet == NewContractABISiglet(a)
            got == ReadSigletEntryAt(kvSiglets, siglet, n, <<>>)
            older == {e \in kvSiglets : e.siglet = siglet /\ e.blockNum <= n}
        IN  IF older = {}
            THEN got = [err |-> DataABINotFoundError(a, n)]
            ELSE /\ got.err = NoError
                 /\ got.entry \in older
                 /\ \A o \in older : o.blockNum <= got.entry.blockNum

\* an account with ABIs written at two blocks that are not consecutive:
\* targets before, on, between and past the entries
AbisAtTwoBlocks ==
    \E a \in Accounts : \E e1, e2 \in kvSiglets :
        /\ e1.siglet = NewContractABISiglet(a) /\ e2.siglet = NewContractABISiglet(a)
        /\ e2.blockNum = e1.blockNum + 2
        /\ ReadSigletEntryAt(kvSiglets, e1.siglet, e1.blockNum - 1, <<>>).err # NoError
        /\ \A e \in kvSiglets : e.siglet = e1.siglet => e \in {e1, e2}
        /\ ReadSigletEntryAt(kvSiglets, e1.siglet, e1.blockNum + 1, <<>>).entry = e1
        /\ ReadSigletEntryAt(kvSiglets, e1.siglet, e2.blockNum + 1, <<>>).entry = e2

(***************************************************************************)
(* Properties of prepareRead.                                              *)
(***************************************************************************)
\* C5: a request of block_num 0 is served at the head block number the
\* front-end fetched when irreversible_only is false, and at the last written
\* (LIB) block number when it is true, by the gRPC and by the HTTP front-end.
ZeroResolvesToHeadOrLIB ==
    /\ (rd.pc = "prepared" /\ rd.blockNum = 0) =>
           /\ Results(rd).err = NoError
           /\ Results(rd).chosenBlockNum =
                  IF rd.irreversibleOnly THEN rd.lastWritten.num ELSE rd.head.num
    /\ \A fe \in FrontEnds :
           /\ prepareRead(fe, 0, FALSE, lastWrittenBlock, headBlock, overlay).chosenBlockNum
                  = headBlock.num
           /\ prepareRead(fe, 0, TRUE, lastWrittenBlock, headBlock, overlay).chosenBlockNum
                  = lastWrittenBlock.num

\* an irreversible-only request of block_num 0 prepared while head is past LIB
\* and LIB past the first block
ZeroPreparedAtLIB ==
    /\ rd.pc = "prepared" /\ rd.blockNum = 0 /\ rd.irreversibleOnly
    /\ rd.lastWritten = lastWrittenBlock
    /\ 0 < lastWrittenBlock.num /\ lastWrittenBlock.num < headBlock.num
    /\ Results(rd).chosenBlockNum = lastWrittenBlock.num

\* C6: an irreversible-only request of a block_num that is not 0 and is at
\* most LIB is served at the requested block_num.
IrreversibleServedAtRequested ==
    (/\ rd.pc = "prepared" /\ rd.irreversibleOnly
     /\ rd.blockNum # 0 /\ rd.blockNum <= rd.lastWritten.num) =>
        /\ Results(rd).err = NoError
        /\ Results(rd).chosenBlockNum = rd.blockNum

\* C7: an irreversible-only request of a block_num above LIB gets the
\* BlockNumHigherThanLIB error and no speculative write; it fetched neither
\* the head block nor the overlay, and no irreversible-only request ever does.
AboveLIBIsRefused ==
    /\ (rd.pc = "prepared" /\ rd.irreversibleOnly /\ rd.blockNum > rd.lastWritten.num) =>
           /\ Results(rd).err
                  = AppBlockNumHigherThanLIBError(rd.blockNum, rd.lastWritten.num)
           /\ Results(rd).speculativeWrites = <<>>
           /\ ~Results(rd).head /\ ~Results(rd).fetched
           /\ rd.head = NoBlock /\ rd.log = <<>>
    /\ rd.pc \in {"head", "fetch"} => ~rd.irreversibleOnly

\* an irreversible-only request of the head block, refused while head is past
\* LIB and the overlay holds the head block
HeadRefusedAboveLIB ==
    /\ rd.pc = "prepared" /\ rd.irreversibleOnly
    /\ rd.lastWritten = lastWrittenBlock
    /\ rd.blockNum = headBlock.num /\ headBlock.num > lastWrittenBlock.num
    /\ overlay # <<>>
    /\ Results(rd).err # NoError

\* C8: a request that is not irreversible-only and asks a block_num above the
\* head it fetched gets the BlockNumHigherThanHead error without fetching the
\* speculative writes; one that asks 0 < block_num <= head is served at
\* block_num with the speculative writes fetched for (head id, block_num).
HeadPathResolves ==
    (rd.pc = "prepared" /\ ~rd.irreversibleOnly) =>
        /\ rd.blockNum > rd.head.num =>
               /\ Results(rd).err
                      = AppBlockNumHigherThanHeadBlockError(rd.blockNum, rd.head.num,
                                                            rd.lastWritten.num)
               /\ ~Results(rd).fetched
               /\ Results(rd).speculativeWrites = <<>>
               /\ rd.log = <<>>
        /\ (0 < rd.blockNum /\ rd.blockNum <= rd.head.num) =>
               /\ Results(rd).err = NoError
               /\ Results(rd).chosenBlockNum = rd.blockNum
               /\ Results(rd).fetched
               /\ Results(rd).speculativeWrites
                      = SpeculativeWritesFetcher(rd.log, rd.head.id, rd.blockNum)

\* a request of a block between LIB and head, prepared with some of the
\* speculative writes of the overlay and not all of them
PreparedBelowHead ==
    /\ rd.pc = "prepared" /\ ~rd.irreversibleOnly
    /\ 0 < rd.blockNum /\ rd.blockNum < rd.head.num
    /\ Results(rd).speculativeWrites # <<>>
    /\ Len(Results(rd).speculativeWrites) < Len(rd.log)

\* C9: the metadata of every successful response has last_irreversible_block_id
\* equal to the id of the last written block prepareRead fetched and
\* up_to_block_id equal to the id of the last speculative write of the read.
MetadataCarriesBlockIDs ==
    (rd.pc = "prepared" /\ Results(rd).err = NoError) =>
        /\ Metadata(rd).last_irreversible_block_id = rd.lastWritten.id
        /\ Metadata(rd).up_to_block_id =
               IF Results(rd).speculativeWrites = <<>> THEN ""
               ELSE EncodeToString(
                        Results(rd).speculativeWrites[
                            Len(Results(rd).speculativeWrites)].blockID)

(***************************************************************************)
(* Properties of GetMultiContractsTableRows.                               *)
(***************************************************************************)
\* C10: whatever the order of the contracts in the request and whatever the
\* order in which the workers complete, the responses on the stream are in
\* ascending order of contract name; when every read succeeded and the call
\* returned after the last result, the stream holds exactly one response per
\* requested contract.
StreamInContractOrder ==
    mc.pc # "idle" =>
        /\ \A i, j \in 1..Len(mc.sent) :
               i < j => ~Less(mc.sent[j].contract, mc.sent[i].contract)
        /\ (/\ mc.pc = "returned" /\ mc.err = "nil" /\ ~mc.cancelled
            /\ \A i \in DOMAIN mc.work : mc.work[i] # "failed") =>
               /\ Len(mc.sent) = Len(mc.requested)
               /\ \A c \in {ContractNames[k] : k \in 1..Len(ContractNames)} :
                      Cardinality({i \in 1..Len(mc.sent) : mc.sent[i].contract = c})
                          = Cardinality({i \in 1..Len(mc.requested) : mc.requested[i] = c})

\* the request ["b", "a", "c"] returned with its three responses, the first
\* worker to complete not being the worker of the first contract in order
StreamedOutOfCompletionOrder ==
    /\ mc.pc = "returned" /\ ~mc.cancelled
    /\ mc.requested = <<"b", "a", "c">>
    /\ Len(mc.sent) = 3
    /\ mc.sent[1].contract = "a" /\ mc.sent[2].contract = "b" /\ mc.sent[3].contract = "c"
    /\ mc.finished[1] # 1

\* C11: when the read of a contract fails in a worker, the call ends with an
\* error that is not nil; it never returns nil after the responses that came
\* before the failure.
WorkerFailureEndsWithError ==
    (/\ mc.pc = "returned" /\ ~mc.cancelled
     /\ \E i \in DOMAIN mc.work : mc.work[i] = "failed") =>
        mc.err # "nil"

\* C12: a front-end entry point whose prepareRead fails because the block is
\* above head or above LIB reports an error of the invalid-argument kind, and a
\* table that was never seen is reported with the not-found kind.
PrepareFailureKeepsItsKind ==
    rd.pc = "returned" =>
        LET pr == prepareRead(rd.frontEnd, rd.request.blockNum, FALSE, lastWrittenBlock,
                              headBlock, overlay)
            seen == HasSeenTableOnce(kvRows, rd.request.contract, rd.request.table)
        IN  /\ pr.err # NoError => Kind(rd.err) = "invalid_argument"
            /\ (pr.err = NoError /\ rd.tabletRows = <<>> /\ ~seen) =>
                   Kind(rd.err) = "not_found"

\* C14: GetTableScopes sends one message per scope of the rows that
\* ReadTabletAt returns at the chosen block, in ascending order of the scopes;
\* with no scope it fails when the table was never seen and ends with an
\* empty stream and no error when it was.
ScopesStreamedAscending ==
    (rd.pc = "returned" /\ rd.handler = "GetTableScopes") =>
        LET pr == Server_prepareRead(rd.request.blockNum, FALSE, lastWrittenBlock,
                                     headBlock, overlay)
            rows == ReadTabletAt(kvRows, kvIndexes, NoIndex, CTBLS,
                                 pr.chosenBlockNum, pr.speculativeWrites)
            seen == HasSeenTableOnce(kvRows, rd.request.contract, rd.request.table)
        IN  pr.err = NoError =>
                IF rows = {} /\ ~seen
                THEN rd.err # NoError /\ rd.stream = <<>>
                ELSE /\ rd.err = NoError
                     /\ Len(rd.stream) = Cardinality(rows)
                     /\ {rd.stream[i].Scope : i \in DOMAIN rd.stream}
                            = {Scope(r) : r \in rows}
                     /\ \A i, j \in DOMAIN rd.stream :
                            i < j => Less(rd.stream[i].Scope, rd.stream[j].Scope)
                     /\ \A i \in DOMAIN rd.stream :
                            rd.stream[i].BlockNum = pr.chosenBlockNum

\* two scopes read in descending order and streamed in ascending order
ScopesReadDescending ==
    /\ rd.pc = "returned" /\ rd.handler = "GetTableScopes"
    /\ Len(rd.tabletRows) = 2
    /\ Scope(rd.tabletRows[1]) = "b" /\ Scope(rd.tabletRows[2]) = "a"
    /\ rd.err = NoError
    /\ Len(rd.stream) = 2
    /\ rd.stream[1].Scope = "a" /\ rd.stream[2].Scope = "b"

\* the typed error under the wraps
RECURSIVE Cause(_)
Cause(err) == IF err.code = "wrapped" THEN Cause(err.cause) ELSE err

\* C13: a single-row read of a primary key that is absent or deleted at the
\* block returns the typed row-not-found error of (contract, table, scope,
\* primary key), through the gRPC and the HTTP path alike; it never returns a
\* successful response with no row.
AbsentRowIsRowNotFound ==
    (rd.pc = "returned"
     /\ rd.handler \in {"readContractStateTableRow", "getTableRowHandler"}) =>
        LET pr == prepareRead(rd.frontEnd, rd.request.blockNum, FALSE, lastWrittenBlock,
                              headBlock, overlay)
            row == ReadTabletRowAt(kvRows, kvIndexes, NoIndex, CST,
                                   pr.chosenBlockNum, rd.request.primaryKey,
                                   pr.speculativeWrites)
            abi == ReadSigletEntryAt(kvSiglets, NewContractABISiglet(CST.contract),
                                     pr.chosenBlockNum, pr.speculativeWrites)
        IN  /\ ~(rd.err = NoError /\ rd.Row = NilRow)
            /\ (pr.err = NoError /\ row = NilRow /\ abi.err = NoError) =>
                   Cause(rd.err) = DataRowNotFoundError(CST.contract, CST.table, CST.scope,
                                                        rd.request.primaryKey)

\* C15: for every kind of tablet, the contract-state and the table-scope
\* tablets included, MarshalBinary of an index succeeds and
\* NewTableIndexFromBinary of the result gives back the index.
IndexRoundTrip ==
    /\ rd.pc = "marshalled" => rd.snapshot.err = NoError
    /\ rd.pc = "unmarshalled" =>
           /\ rd.decoded.err = NoError
           /\ IndexOf(rd.decoded) = rd.index

\* the order of two keys, byte by byte
RECURSIVE LexLess(_, _)
LexLess(left, right) ==
    IF right = <<>> THEN FALSE
    ELSE IF left = <<>> THEN TRUE
    ELSE IF Head(left) # Head(right)
         THEN (CHOOSE i \in DOMAIN Alphabet : Alphabet[i] = Head(left))
                  < (CHOOSE i \in DOMAIN Alphabet : Alphabet[i] = Head(right))
    ELSE LexLess(Tail(left), Tail(right))

\* C16: the key of a row is prefix/tablet parts/block number in 8 lowercase
\* hexadecimal digits/primary key; exploding the key gives back the prefix,
\* the tablet parts, the block number and the primary key; and the keys of
\* two rows of one tablet are ordered as their block numbers are.
RowKeyCodec ==
    /\ rd.pc \in {"keys", "exploded"} =>
           /\ rd.key = TabletKey(rd.tablet) \o <<"/">> \o HexBlockNum(rd.blockNum)
                           \o <<"/">> \o rd.primaryKey
           /\ Len(HexBlockNum(rd.blockNum)) = 8
           /\ \A i \in 1..8 : HexBlockNum(rd.blockNum)[i] \in
                                  {HexDigits[d] : d \in DOMAIN HexDigits}
           /\ ParseHex(HexBlockNum(rd.blockNum)) = rd.blockNum
           /\ rd.blockNum < rd.otherBlockNum => LexLess(rd.key, rd.otherKey)
           /\ rd.blockNum > rd.otherBlockNum => LexLess(rd.otherKey, rd.key)
    /\ rd.pc = "exploded" =>
           /\ rd.exploded.err = NoError
           /\ rd.exploded.collection = CharsOf(rd.tablet.collection)
           /\ rd.exploded.collection \o <<"/">> \o rd.exploded.tabletKey
                  = TabletKey(rd.tablet)
           /\ ParseHex(rd.exploded.blockNumKey) = rd.blockNum
           /\ rd.exploded.primaryKey = rd.primaryKey
           /\ Explode(rd.exploded.collection \o <<"/">> \o rd.exploded.tabletKey)
                  = Explode(TabletKey(rd.tablet))

\* two rows whose block numbers differ in a digit above 9, exploded
KeysAcrossHexDigits ==
    /\ rd.pc = "exploded"
    /\ rd.blockNum = 9 /\ rd.otherBlockNum = 10
    /\ rd.tablet = CST
    /\ rd.exploded.blockNumKey = <<"0", "0", "0", "0", "0", "0", "0", "9">>
    /\ rd.otherKey[Len(TabletKey(CST)) + 9] = "a"
    /\ LexLess(rd.key, rd.otherKey)

\* C17: for every tablet and every block N, getIndex returns the persisted
\* snapshot of that tablet with the greatest at_block_num <= N, and no index
\* when the tablet has no snapshot at or before N; never a snapshot of
\* another tablet nor one above N.
GetIndexIsGreatestAtOrBefore ==
    \A t \in {TD, TD2} : \A n \in 0..(MaxBlock + 1) :
        LET atOrBefore == {e \in kvIndexes : e.tableKey = t /\ MaxUint - e.rev <= n}
            got == getIndex(kvIndexes, t, n)
        IN  IF atOrBefore = {} THEN got = NoIndex
            ELSE /\ got # NoIndex
                 /\ got.AtBlockNum <= n
                 /\ \E e \in atOrBefore :
                       /\ \A o \in atOrBefore : MaxUint - o.rev <= MaxUint - e.rev
                       /\ got = IndexOf(NewTableIndexFromBinary(t, MaxUint - e.rev, e.blob))

\* snapshots of one tablet at blocks 1 and 3, one of the other tablet at
\* block 2, and the lookup at block 2 finds the snapshot of block 1
LookupBetweenSnapshots ==
    /\ \E e1, e2 \in kvIndexes :
          /\ e1.tableKey = TD /\ e2.tableKey = TD
          /\ MaxUint - e1.rev = 1 /\ MaxUint - e2.rev = 3
    /\ \E e \in kvIndexes : e.tableKey = TD2 /\ MaxUint - e.rev = 2
    /\ getIndex(kvIndexes, TD, 2).AtBlockNum = 1
    /\ getIndex(kvIndexes, TD2, 1) = NoIndex

\* the rows of a primary key of a tablet the store holds at or before a block
VersionsAtOrBefore(tablet, primaryKey, blockNum) ==
    {r \in kvRows : r.tablet = tablet /\ r.primKey = primaryKey /\ r.blockNum <= blockNum}

TableScopeRowRebuilt ==
    rd.pc = "rebuilt" =>
        /\ Len(rd.value) \notin {0, 8} => rd.rebuilt.err # NoError
        /\ Len(rd.value) \in {0, 8} =>
              /\ rd.rebuilt.err = NoError
              /\ rd.rebuilt.PrimKey = CharsOf(rd.row.primKey)
              /\ ParseHex(rd.rebuilt.BlockNumKey) = rd.row.blockNum
              /\ rd.rebuilt.Payload = rd.row.payload

\* the store holds nothing of a block above the last-written-block marker
NothingAboveMarker ==
    /\ \A r \in kvRows : r.blockNum <= lastWrittenBlock.num
    /\ \A e \in kvSiglets : e.blockNum <= lastWrittenBlock.num

\* a step that changes the rows, the siglet entries or the marker writes all
\* of the oldest reversible request and sets the marker to its block
WholeRequestWithMarker ==
    (kvRows' # kvRows \/ kvSiglets' # kvSiglets \/ lastWrittenBlock' # lastWrittenBlock) =>
        /\ overlay # <<>>
        /\ lastWrittenBlock' = BlockRef(Head(overlay).blockNum, Head(overlay).blockID)
        /\ \A i \in DOMAIN Head(overlay).tabletRows :
              \E r \in kvRows' :
                 /\ r.tablet = Head(overlay).tabletRows[i].tablet
                 /\ r.blockNum = Head(overlay).blockNum
                 /\ r.primKey = Head(overlay).tabletRows[i].primKey
        /\ \A i \in DOMAIN Head(overlay).sigletEntries :
              Head(overlay).sigletEntries[i] \in kvSiglets'
        /\ \A r \in kvRows' \ kvRows : r.blockNum = Head(overlay).blockNum
        /\ \A e \in kvSiglets' \ kvSiglets : e.blockNum = Head(overlay).blockNum

IsLinearChain(seq) ==
    \A i \in 1..(Len(seq) - 1) :
        /\ seq[i + 1].prevBlockID = seq[i].blockID
        /\ seq[i].blockNum < seq[i + 1].blockNum

\* a request of the next block whose previous block id is prev
RequestAfter(prev) ==
    WriteRequest(headBlock.num + 1, <<headBlock.num + 1, forkCount>>, prev, <<>>, <<>>)

\* C21: in every reachable state, fetch(head_id, target_block_num) returns a
\* linear chain (each request names the block id of the one before it, block
\* numbers strictly increase), whose last request is on the chain that ends
\* at head_id, with no request above target_block_num; the speculative writes
\* a prepared read holds are such a chain; and the append of a request whose
\* previous block id is not the current tip leaves the log as it is.
FetchIsLinearChain ==
    /\ \A h \in BlockIDs, n \in 0..(MaxBlock + 1) :
           LET f == SpeculativeWritesFetcher(overlay, EncodeToString(h), n)
           IN  /\ IsLinearChain(f)
               /\ \A i \in 1..Len(f) : f[i].blockNum <= n
               /\ f # <<>> =>
                      \E j \in 1..Len(overlay) :
                          /\ overlay[j].blockID = h
                          /\ IsLinearChain(SubSeq(overlay, 1, j))
                          /\ \E i \in 1..j : overlay[i] = f[Len(f)]
    /\ (rd.pc = "prepared" /\ Results(rd).err = NoError) =>
           /\ IsLinearChain(Results(rd).speculativeWrites)
           /\ \A i \in 1..Len(Results(rd).speculativeWrites) :
                  Results(rd).speculativeWrites[i].blockNum <= Results(rd).chosenBlockNum
    /\ \A prev \in BlockIDs :
           EncodeToString(prev) # TipID(overlay, lastWrittenBlock.id) =>
               OverlayAppend(overlay, lastWrittenBlock.id, RequestAfter(prev)) = overlay

\* after a fork switch the log holds two requests, the second of the new
\* fork, and a fetch at the head truncated below it returns the first alone
FetchAfterForkSwitch ==
    /\ forkCount = 1
    /\ Len(overlay) = 2
    /\ overlay[2].blockID[2] = 1
    /\ SpeculativeWritesFetcher(overlay, headBlock.id, overlay[1].blockNum) = <<overlay[1]>>
    /\ OverlayAppend(overlay, lastWrittenBlock.id, RequestAfter(overlay[1].blockID)) = overlay

(***************************************************************************)
(* Reads after a fork switch.                                              *)
(***************************************************************************)
\* the rows of the tablet a read at blockNum returns, the read prepared and
\* served in the state (rows, cached, lib, head, log)
ReadNow(frontEnd, rows, cached, lib, head, log, tablet, blockNum) ==
    LET pr == prepareRead(frontEnd, blockNum, FALSE, lib, head, log)
    IN  IF pr.err # NoError THEN {}
        ELSE ReadTabletAt(rows, kvIndexes, cached, tablet, pr.chosenBlockNum,
                          pr.speculativeWrites)

\* the rows of a write request, as a set
RowSet(wr) == {wr.tabletRows[i] : i \in 1..Len(wr.tabletRows)}

\* every row a read returns is persisted or is a row of a request of the log,
\* the log ends at the head and its requests of a later fork come last, and
\* the read is the read of the store once the log is persisted
OnlyChainWritesVisible ==
    /\ overlay # <<>> => overlay[Len(overlay)].blockID = DecodeString(headBlock.id)
    /\ \A i \in 1..(Len(overlay) - 1) : overlay[i].blockID[2] <= overlay[i + 1].blockID[2]
    /\ \A fe \in FrontEnds, t \in Tablets, n \in 1..MaxBlock :
           LET res == ReadNow(fe, kvRows, lastIndexes[t], lastWrittenBlock, headBlock,
                              overlay, t, n)
               pr == prepareRead(fe, n, FALSE, lastWrittenBlock, headBlock, overlay)
           IN  /\ \A r \in res :
                      r \in kvRows \/ \E i \in 1..Len(overlay) : r \in RowSet(overlay[i])
               /\ pr.err = NoError =>
                      res = ReadTabletAt(PersistAll(kvRows, overlay), kvIndexes,
                                         lastIndexes[t], t, pr.chosenBlockNum, <<>>)

\* a fork switch: the requests above the new head leave the log, and no row
\* of theirs that is not persisted is in a read that starts after it
ForkSwitchStep ==
    forkCount' = forkCount + 1 =>
        \A k \in 1..Len(overlay) :
            overlay[k].blockNum > headBlock'.num =>
                /\ \A i \in 1..Len(overlay') : overlay'[i].blockID # overlay[k].blockID
                /\ \A fe \in FrontEnds, t \in Tablets, n \in 1..MaxBlock :
                       \A r \in RowSet(overlay[k]) \ kvRows' :
                           r \notin ReadNow(fe, kvRows', lastIndexes'[t], lastWrittenBlock',
                                            headBlock', overlay', t, n)

\* C22: after a fork switch (undo_to an ancestor, then the blocks of the new
\* fork), every read that starts after the switch returns only persisted rows
\* and rows of the requests now in the log, which end at the head with the
\* blocks of the new fork, and returns what the store would once those
\* requests are persisted; no write of an undone block is in such a read.
ForkSwitchHidesUndone == []OnlyChainWritesVisible /\ [][ForkSwitchStep]_vars

\* the log after undo_to its first block and two blocks of the new fork, the
\* last with a row that a read at the head returns from the log alone
ReadOfPrimedFork ==
    /\ forkCount = 1
    /\ Len(overlay) = 3
    /\ overlay[1].blockID[2] = 0
    /\ overlay[2].blockID[2] = 1
    /\ overlay[3].blockID[2] = 1
    /\ \E t \in Tablets : \E r \in RowSet(overlay[3]) :
           /\ r \notin kvRows
           /\ r \in ReadNow("grpc", kvRows, lastIndexes[t], lastWrittenBlock, headBlock,
                            overlay, t, headBlock.num)

(***************************************************************************)
(* What the speculative log holds.                                         *)
(***************************************************************************)
\* the log holds requests above LIB only, in the order of their block
\* numbers, and no row or siglet entry of theirs is persisted; nothing above
\* LIB is persisted
LogAboveLIB ==
    /\ \A i \in 1..Len(overlay) : overlay[i].blockNum > lastWrittenBlock.num
    /\ \A i \in 1..(Len(overlay) - 1) : overlay[i].blockNum < overlay[i + 1].blockNum
    /\ \A i \in 1..Len(overlay) :
           /\ RowSet(overlay[i]) \cap kvRows = {}
           /\ \A j \in 1..Len(overlay[i].sigletEntries) :
                  overlay[i].sigletEntries[j] \notin kvSiglets
    /\ \A r \in kvRows : r.blockNum <= lastWrittenBlock.num

\* while the process runs, a request leaves the log exactly when its block is
\* at or below the new LIB or above the head a fork switch goes back to
LogStep ==
    restarts' = restarts =>
        \A k \in 1..Len(overlay) :
            (\A i \in 1..Len(overlay') : overlay'[i] # overlay[k])
                <=> \/ overlay[k].blockNum <= lastWrittenBlock'.num
                    \/ forkCount' = forkCount + 1 /\ overlay[k].blockNum > headBlock'.num

\* C23: in every reachable state the speculative log holds only write requests
\* with block_num > LIB, ordered by block number; a request leaves the log
\* exactly when its block becomes irreversible (promote_to_lib removes every
\* entry at or below the new LIB) or is undone; and once IrreversibleBlock has
\* completed no request is both persisted and still in the log.
LogHoldsReversibleOnly == []LogAboveLIB /\ [][LogStep]_vars

\* IrreversibleBlock has persisted the rows of a block while the log still
\* holds two later requests, the first of them with rows
PromotedWithLogLeft ==
    /\ lastWrittenBlock.num >= 1
    /\ \E r \in kvRows : r.blockNum = lastWrittenBlock.num
    /\ Len(overlay) = 2
    /\ RowSet(overlay[1]) # {}

(***************************************************************************)
(* The watermarks.                                                         *)
(***************************************************************************)
\* LIB is at or below the head, nothing above LIB is persisted, and a read
\* that has fetched the last written block and then the head holds a last
\* written block at or below its head
WatermarksOrdered ==
    /\ lastWrittenBlock.num <= headBlock.num
    /\ \A r \in kvRows : r.blockNum <= lastWrittenBlock.num
    /\ (rd.pc \in {"fetch", "prepared"} /\ ~rd.irreversibleOnly) =>
           /\ rd.lastWritten.num <= rd.head.num
           /\ rd.lastWritten.num <= lastWrittenBlock.num

\* LIB never decreases
LIBStep == lastWrittenBlock.num <= lastWrittenBlock'.num

\* C24: LIB <= head in every reachable state, LIB never decreases and rows
\* are persisted only up to LIB; so prepareRead, which reads the last written
\* block first and the head afterwards, always holds
\* last_written_block_num <= head_block_num, whatever the write pipeline did
\* between the two reads.
LIBNeverAboveHead == []WatermarksOrdered /\ [][LIBStep]_vars

\* a read that fetched the last written block, then the head after the
\* pipeline had moved both on
ReadAcrossPromotion ==
    /\ rd.pc = "fetch"
    /\ rd.lastWritten.num < lastWrittenBlock.num
    /\ rd.lastWritten.num < rd.head.num
    /\ forkCount = 1

(***************************************************************************)
(* Cancellation of GetMultiContractsTableRows.                             *)
(***************************************************************************)
\* once the handler has returned nothing more is sent and no worker starts
\* or finishes, and no step of the call changes the store, the index cache
\* or the write pipeline
CancelStep ==
    /\ mc.pc = "returned" => (mc' = mc \/ mc' = McIdle)
    /\ mc' # mc => UNCHANGED dbVars

\* a call whose stream the client has cancelled returns
CancelledReturns == (mc.pc = "streaming" /\ mc.ctxDone) ~> (mc.pc # "streaming")

\* C25: when the client cancels the stream of GetMultiContractsTableRows the
\* handler eventually returns; once it has observed the cancellation no
\* response is sent and no worker goes on; and the call changes nothing of the
\* persisted state (KV store, index cache).
CancelEndsTheCall == [][CancelStep]_vars /\ CancelledReturns

\* the handler has returned on the cancellation after sending a response,
\* with one worker running and one contract still queued
ReturnedOnCancellation ==
    /\ mc.pc = "returned"
    /\ mc.cancelled
    /\ Len(mc.sent) = 1
    /\ \E i, j \in DOMAIN mc.work : mc.work[i] = "running" /\ mc.work[j] = "queued"

(***************************************************************************)
(* Validation of the single-row request of the HTTP front-end.             *)
(***************************************************************************)
\* what the query lacks: the account or the table is missing, empty or not
\* a name, the primary key is missing or empty, irreversible_only is not a
\* boolean, the scope is not a name or is not in the query at all
FailsValidation(form) ==
    LET Missing(key) == key \notin DOMAIN form \/ form[key] = ""
    IN  \/ Missing("account") \/ form["account"] = "EOSIO!"
        \/ Missing("table") \/ form["table"] = "T!"
        \/ Missing("primary_key")
        \/ "irreversible_only" \in DOMAIN form /\ form["irreversible_only"] = "maybe"
        \/ "scope" \notin DOMAIN form
        \/ form["scope"] = "S!"

\* C26: getTableRowHandler returns a validation error and makes no call on
\* the database whenever the validation fails: the account or the table
\* missing or not a valid name, the primary key missing, irreversible_only not
\* a boolean, or the scope parameter absent; an empty scope value is accepted,
\* and a query that passes the validation goes on to prepareRead.
ValidationFailureWithoutDatabase ==
    (rd.pc = "returned" /\ rd.handler = "getTableRowHandler") =>
        /\ FailsValidation(rd.form) <=> rd.err.code = "request_validation_error"
        /\ FailsValidation(rd.form) => rd.dbCalls = <<>> /\ rd.Row = NilRow
        /\ ~FailsValidation(rd.form) => rd.dbCalls # <<>>
        /\ ("scope" \in DOMAIN rd.form /\ rd.form["scope"] = "") =>
               "scope" \notin validateGetTableRowRequest(rd.form)

\* a query without the scope parameter, well formed otherwise, refused over
\* a store that holds the row it names; and a query with an empty scope
ScopeAbsentRefused ==
    /\ rd.pc = "returned" /\ rd.handler = "getTableRowHandler"
    /\ kvRows # {}
    /\ DOMAIN rd.form = {"account", "table", "primary_key", "block_num"}
    /\ rd.err.code = "request_validation_error"
    /\ rd.err.errors = {"scope"}

(***************************************************************************)
(* The index cache under a reader and the write task.                      *)
(***************************************************************************)
\* C27: a snapshot (TableIndex) a reader got from the index cache stays as
\* the reader got it, under every interleaving with IndexTables and the
\* counting of mutations, for as long as the process runs.
HeldSnapshotImmutable ==
    (rd.pc = "returned" /\ rd.handler = "GetIndex" /\ rd.run = restarts) =>
        lastIndexes[rd.tableKey] = rd.index

(***************************************************************************)
(* A read between prepareRead and ReadTabletAt.                            *)
(***************************************************************************)
\* the blocks persisted since the list was fetched are blocks of the log the
\* list was fetched from
PersistedFromList(r) ==
    \/ lastWrittenBlock.num < r.log[1].blockNum
    \/ \E i \in 1..Len(r.log) : r.log[i].blockID = DecodeString(lastWrittenBlock.id)

\* the read of a prepared request whose list holds a request: over the store
\* as it is now it returns what it returned over the store as it was when the
\* list was fetched (the rows below the first block of the list, no snapshot
\* above them), whatever was persisted and indexed of the list since
StableRead ==
    (/\ rd.pc = "prepared"
     /\ Results(rd).err = NoError
     /\ Results(rd).speculativeWrites # <<>>
     /\ PersistedFromList(rd)) =>
        LET list == Results(rd).speculativeWrites
            blockNum == Results(rd).chosenBlockNum
        IN  ReadTabletAt(kvRows, kvIndexes, lastIndexes[TD], TD, blockNum, list)
              = ReadTabletAt({r \in kvRows : r.blockNum < list[1].blockNum}, {}, NoIndex,
                             TD, blockNum, list)

\* what a prepared request holds does not change while it is held
HeldListStep == (rd.pc = "prepared" /\ rd'.pc = "prepared") => Results(rd') = Results(rd)

IsBuiltFrom(built, S, rows, tablet, N) ==
    LET visited == {r \in rows : r.tablet = tablet /\ S.AtBlockNum < r.blockNum
                                  /\ r.blockNum <= N}
    IN  /\ built.AtBlockNum = N
        /\ built.Squelched = Cardinality(visited)
        /\ \A pk \in (DOMAIN built.Map) \cup (DOMAIN S.Map) \cup {r.primKey : r \in visited} :
               LET versions == {r \in visited : r.primKey = pk}
                   last == CHOOSE r \in versions : \A o \in versions : o.blockNum <= r.blockNum
               IN  IF versions = {}
                   THEN pk \in DOMAIN built.Map /\ pk \in DOMAIN S.Map
                        /\ built.Map[pk] = S.Map[pk]
                   ELSE IF IsDeletion(last) THEN pk \notin DOMAIN built.Map
                   ELSE pk \in DOMAIN built.Map /\ built.Map[pk] = last.blockNum

\* rows at blocks 1, 5, 5 and 9 indexed at block 7 from no snapshot: the map
\* holds the first key at block 5 and three rows were visited
IndexBuildExample ==
    LET rows == {NewRow(TD, 1, HexKeys[1], "alice", <<1>>, FALSE),
                 NewRow(TD, 5, HexKeys[1], "alice", <<1>>, FALSE),
                 NewRow(TD, 5, HexKeys[2], "alice", <<1>>, TRUE),
                 NewRow(TD, 9, HexKeys[2], "alice", <<1>>, FALSE)}
        built == BuildIndex(NoIndex, {}, rows, TD, 7)
    IN  /\ built.AtBlockNum = 7
        /\ built.Squelched = 3
        /\ DOMAIN built.Map = {HexKeys[1]}
        /\ built.Map[HexKeys[1]] = 5

\* a turn of IndexTables for the table: the index it caches is built from the
\* snapshot it started from over the persisted rows
IndexBuildStep ==
    (scheduleIndexing[TD] # 0 /\ scheduleIndexing'[TD] = 0 /\ restarts' = restarts) =>
        IsBuiltFrom(lastIndexes'[TD],
                    StartIndex(lastIndexes[TD], kvIndexes', TD, scheduleIndexing[TD]),
                    kvRows, TD, scheduleIndexing[TD])

TriggerFollowsThresholds ==
    rd.pc = "decided" =>
        /\ rd.trigger =
               (IF rd.count < 1000 THEN FALSE
                ELSE IF ~rd.cached THEN TRUE
                ELSE IF rd.rows > 100000 /\ rd.count < 10000 THEN FALSE
                ELSE IF rd.rows > 50000 /\ rd.count < 5000 THEN FALSE
                ELSE TRUE)
        /\ (rd.cached /\ rd.rows = 50000 /\ rd.count = 1000) => rd.trigger
        /\ (rd.cached /\ rd.rows = 100000 /\ rd.count = 5000) => rd.trigger

\* the rule has decided on a cached map of exactly 100000 entries with a
\* counter of 5000: the table is indexed
TriggeredAtTheThreshold ==
    /\ rd.pc = "decided"
    /\ rd.cached /\ rd.rows = 100000 /\ rd.count = 5000
    /\ rd.trigger

(***************************************************************************)
(* The snapshots of one run of IndexTables and the batches of the store.   *)
(***************************************************************************)
\* C31: the snapshots built for an irreversible block are persisted in one
\* atomic batch: in no state, a crash or an error of the store between two
\* flushes included, is the snapshot of a tablet at a block persisted while
\* the snapshot of another tablet of the same run is not (it waits in the
\* batch of the run, or its tablet is still scheduled at that block).
SnapshotsPersistedTogether ==
    \A e \in kvIndexes :
        /\ \A b \in batch : b.rev # e.rev
        /\ \A t \in TableKeys :
              scheduleIndexing[t] # 0 => RevBlockNum(scheduleIndexing[t]) # e.rev

(***************************************************************************)
(* The layout of the index blob.                                           *)
(***************************************************************************)
\* the big-endian number of the 4 bytes of a buffer after a position
BigEndian32(buffer, pos) ==
    ((buffer[pos + 1] * 256 + buffer[pos + 2]) * 256 + buffer[pos + 3]) * 256
        + buffer[pos + 4]

\* C32: MarshalBinary of a map of n entries with primary keys of P bytes
\* gives exactly 16 + n*(P+4) bytes: the squelched count big-endian in bytes
\* 0..4, zero in bytes 4..16, then one entry per primary key of the map, its
\* P bytes followed by its block number big-endian on 4 bytes; and
\* NewTableIndexFromBinary returns an error and no index for a buffer shorter
\* than 16 bytes, for one whose length minus 16 is no multiple of P+4, and
\* for a table key of unknown kind.
IndexBlobLayout ==
    /\ (rd.pc \in {"marshalled", "unmarshalled"} /\ rd.snapshot.err = NoError) =>
          LET P == indexPrimaryKeyByteCountByTableKey(rd.tableKey)
              keys == DOMAIN rd.index.Map
              n == Cardinality(keys)
              blob == rd.snapshot.snapshot
              KeyAt(e) == SubSeq(blob, 16 + (e - 1) * (P + 4) + 1, 16 + (e - 1) * (P + 4) + P)
              KeyBytes(pk) == [i \in 1..P |-> IF i = P THEN ParseUint16(pk) ELSE 0]
          IN  /\ Len(blob) = 16 + n * (P + 4)
              /\ BigEndian32(blob, 0) = rd.index.Squelched
              /\ \A i \in 5..16 : blob[i] = 0
              /\ \A pk \in keys :
                    \E e \in 1..n :
                       /\ KeyAt(e) = KeyBytes(pk)
                       /\ BigEndian32(blob, 16 + (e - 1) * (P + 4) + P) = rd.index.Map[pk]
    /\ rd.pc = "decoded" =>
          LET P == indexPrimaryKeyByteCountByTableKey(rd.tableKey)
          IN  (P = 0 \/ Len(rd.buffer) < 16 \/ (Len(rd.buffer) - 16) % (P + 4) # 0) =>
                  /\ rd.decoded.err # NoError
                  /\ DOMAIN rd.decoded = {"err"}

\* the blob of an index of two keys of one byte: 26 bytes, the squelched
\* count 0x01020304 in the first four, a block number of three bytes
TwoEntriesOfOneByte ==
    /\ rd.pc = "marshalled"
    /\ rd.snapshot.err = NoError
    /\ rd.tableKey.collection = "arl"
    /\ Cardinality(DOMAIN rd.index.Map) = 2
    /\ Len(rd.snapshot.snapshot) = 26
    /\ SubSeq(rd.snapshot.snapshot, 1, 4) = <<1, 2, 3, 4>>
    /\ \E pk \in DOMAIN rd.index.Map : rd.index.Map[pk] = 66051

(***************************************************************************)
(* What a run of IndexTables leaves behind.                                *)
(***************************************************************************)
\* the store holds, under the index key of the tablet and the block, a
\* snapshot equal to the index
PersistedAs(indexes, tablet, index) ==
    \E e \in indexes :
        /\ e.tableKey = tablet
        /\ e.rev = RevBlockNum(index.AtBlockNum)
        /\ IndexOf(NewTableIndexFromBinary(tablet, index.AtBlockNum, e.blob)) = index

\* once IndexTables has returned without error the schedule and the batch
\* are empty and every cached index is persisted as it is cached
CachedIsPersisted ==
    pipe = "ready" =>
        /\ batch = {}
        /\ \A t \in TableKeys :
              /\ scheduleIndexing[t] = 0
              /\ lastIndexes[t] # NoIndex => PersistedAs(kvIndexes, t, lastIndexes[t])

\* a turn of the loop that takes a tablet off the schedule caches its index
\* at the scheduled block, resets its counter and sets its snapshot in the
\* batch; until IndexTables returns, the index and the counter of a tablet
\* taken off the schedule stay, and its snapshot is in the batch or in the
\* store; the return itself leaves the cache as it is
RunStep ==
    (pipe = "indexing" /\ pipe' \in {"indexing", "ready"} /\ restarts' = restarts) =>
        \A t \in TableKeys :
            /\ (scheduleIndexing[t] # 0 /\ scheduleIndexing'[t] = 0) =>
                  /\ lastIndexes'[t] # NoIndex
                  /\ lastIndexes'[t].AtBlockNum = scheduleIndexing[t]
                  /\ lastCounters'[t] = 0
                  /\ PersistedAs(batch', t, lastIndexes'[t])
            /\ scheduleIndexing[t] = 0 =>
                  /\ scheduleIndexing'[t] = 0
                  /\ lastIndexes'[t] = lastIndexes[t]
                  /\ lastCounters'[t] = lastCounters[t]
                  /\ \A b \in batch : b.tableKey = t => b \in batch' \cup kvIndexes'
            /\ pipe' = "ready" => batch \subseteq kvIndexes'

\* C33: after IndexTables returns successfully the indexing schedule is
\* empty and, for every tablet that was scheduled at block N, the cached index
\* of the tablet has at_block_num = N, its mutation counter is 0, and a
\* snapshot equal to the cached index is persisted under the index key of
\* (tablet, N).
SuccessfulRunIsComplete == []CachedIsPersisted /\ [][RunStep]_vars

\* IndexTables has returned from a run of two tablets scheduled at one
\* block: both cached at that block, persisted, counters at 0
TwoTabletsIndexedAtOneBlock ==
    /\ pipe = "ready"
    /\ lastIndexes[TD] # NoIndex /\ lastIndexes[TD2] # NoIndex
    /\ lastIndexes[TD].AtBlockNum = lastWrittenBlock.num
    /\ lastIndexes[TD2].AtBlockNum = lastWrittenBlock.num
    /\ lastCounters[TD] = 0 /\ lastCounters[TD2] = 0
    /\ PersistedAs(kvIndexes, TD, lastIndexes[TD])
    /\ PersistedAs(kvIndexes, TD2, lastIndexes[TD2])
    /\ DOMAIN lastIndexes[TD].Map # {}

(***************************************************************************)
(* The index cache after a run of IndexTables that returned an error.      *)
(***************************************************************************)
\* C34: when IndexTables returns an error (flush, index fetch, row scan or
\* marshalling) the index cache is consistent with the store: every cached
\* index, map and at_block_num, is the one persisted for its tablet, a scan
\* that failed midway included, and a tablet whose counter was reset in the
\* run and which left the schedule has its snapshot persisted.
CacheConsistentAfterError ==
    pipe = "halted" =>
        \A t \in TableKeys :
            lastIndexes[t] # NoIndex => PersistedAs(kvIndexes, t, lastIndexes[t])

(***************************************************************************)
(* What a run of IndexTables leaves alone.                                 *)
(***************************************************************************)
\* a step of IndexTables (a turn of its loop, its final flush, an error
\* return) writes and deletes no row, and changes neither the cached index,
\* nor the counter, nor the persisted snapshots of a tablet that is not in
\* the schedule and has no snapshot waiting in the batch of the run
IndexTablesFrame ==
    (pipe = "indexing" /\ restarts' = restarts) =>
        /\ kvRows' = kvRows
        /\ kvSiglets' = kvSiglets
        /\ \A t \in TableKeys :
              (scheduleIndexing[t] = 0 /\ \A b \in batch : b.tableKey # t) =>
                  /\ lastIndexes'[t] = lastIndexes[t]
                  /\ lastCounters'[t] = lastCounters[t]
                  /\ {e \in kvIndexes' : e.tableKey = t} = {e \in kvIndexes : e.tableKey = t}
                  /\ \A b \in batch' : b.tableKey # t

\* C35: IndexTables changes only the tablets of the indexing schedule: the
\* cached index, the mutation counter and the persisted snapshots of every
\* other tablet are unchanged by the run, and no row key of any tablet is
\* written or deleted.
OnlyScheduledTabletsChange == [][IndexTablesFrame]_vars

\* a run has indexed one tablet at block 2 next to another that was not
\* scheduled: cached at block 1, persisted at block 1, one mutation counted
IndexedNextToUnscheduled ==
    /\ pipe = "ready"
    /\ lastIndexes[TD] # NoIndex /\ lastIndexes[TD2] # NoIndex
    /\ lastIndexes[TD].AtBlockNum = 2
    /\ lastIndexes[TD2].AtBlockNum = 1
    /\ PersistedAs(kvIndexes, TD, lastIndexes[TD])
    /\ PersistedAs(kvIndexes, TD2, lastIndexes[TD2])
    /\ lastCounters[TD2] = 1

(***************************************************************************)
(* The speculative writes and the up-to block id of prepareRead.           *)
(***************************************************************************)
\* C36: for every successful prepareRead, of either front-end: when
\* irreversible_only is true the speculative writes are empty and
\* up_to_block_id is empty; when it is false every speculative write has
\* LIB < block_num <= chosen_block_num (LIB: the last written block
\* prepareRead fetched), up_to_block_id is the block id of the last of them,
\* and up_to_block_id is empty exactly when no speculative write is returned.
SpeculativeWritesWithinWindow ==
    (rd.pc = "prepared" /\ Results(rd).err = NoError) =>
        LET results == Results(rd)
            writes == results.speculativeWrites
        IN  IF rd.irreversibleOnly
            THEN writes = <<>> /\ results.upToBlockID = ""
            ELSE /\ \A i \in DOMAIN writes :
                       /\ rd.lastWritten.num < writes[i].blockNum
                       /\ writes[i].blockNum <= results.chosenBlockNum
                 /\ writes # <<>> =>
                       results.upToBlockID = EncodeToString(writes[Len(writes)].blockID)
                 /\ (results.upToBlockID = "") <=> (writes = <<>>)

\* a request below the head prepared over a log of three blocks: two
\* speculative writes, the up-to block id that of the second
TwoWritesUpToTheSecond ==
    /\ rd.pc = "prepared"
    /\ ~rd.irreversibleOnly
    /\ Results(rd).err = NoError
    /\ Len(rd.log) = 3
    /\ Len(Results(rd).speculativeWrites) = 2
    /\ Results(rd).chosenBlockNum = 2
    /\ Results(rd).upToBlockID = EncodeToString(rd.log[2].blockID)
    /\ rd.frontEnd = "grpc"

(***************************************************************************)
(* fetchABI of an account that has no ABI at the block.                    *)
(***************************************************************************)
\* C37: fetchABI ends with an ABI entry or an error value in every state of
\* the database: when the account has no ABI entry at or before the chosen
\* block, it returns the ABI-not-found error of the account and the block and
\* does not crash on the missing entry.
FetchABIEndsWithEntryOrError ==
    (rd.pc = "returned" /\ rd.handler = "fetchABI") =>
        /\ "panic" \notin DOMAIN rd.out
        /\ (rd.prepared /\ (rd.read.err # NoError \/ rd.read.entry = NilRow)) =>
               Cause(rd.out.err) = DataABINotFoundError(rd.account, rd.blockNum)

(***************************************************************************)
(* The rows of the contract-state tablet, stored and read back.            *)
(***************************************************************************)
\* the row NewRowFromKV rebuilt, with the fields of a row of NewRow
RebuiltStateRow ==
    [tablet |-> rd.rebuilt.Collection \o <<"/">> \o rd.rebuilt.TabletKey,
     blockNum |-> ParseHex(rd.rebuilt.BlockNumKey),
     primKey |-> rd.rebuilt.PrimKey,
     payload |-> rd.rebuilt.Payload]

\* C38: every row of ContractStateTablet.NewRow, deletion or not, is rebuilt
\* by NewRowFromKV from its key and its payload: the call succeeds and the
\* row has the same tablet, block number, primary key and payload; when the
\* row is not a deletion, Payer() is the payer given to NewRow and Data() the
\* data bytes.
ContractStateRowRoundTrip ==
    rd.pc = "state rebuilt" =>
        /\ rd.rebuilt.err = NoError
        /\ RebuiltStateRow = [rd.row EXCEPT !.tablet = TabletKey(rd.row.tablet)]
        /\ ~rd.isDeletion => /\ Payer(RebuiltStateRow) = rd.payer
                             /\ Data(RebuiltStateRow) = rd.data

(***************************************************************************)
(* The scheduling decision along the counter of a table.                   *)
(***************************************************************************)
\* the index cache of the table: its counter and, when cached, an index of
\* that many rows
CacheAt(count) ==
    [lastCounters |-> [t \in {TD} |-> count],
     lastIndexes |-> [t \in {TD} |->
         IF rd.cached
         THEN [AtBlockNum |-> 1, Squelched |-> 0, Map |-> [pk \in 1..rd.rows |-> 1]]
         ELSE NoIndex]]

\* the counters the rule is compared at: the thresholds, their neighbours and
\* the counter of the state
CounterValues == {0, 999, 1000, 1001, 4999, 5000, 5001, 9999, 10000, 10001, MaxCount}

\* with the cached snapshot of the state, a decision to index at a counter
\* stands at every greater counter, and the rule indexes from 10000 on
MonotoneInCounter ==
    rd.pc = "counting" =>
        /\ \A c \in CounterValues \cup {rd.count} : \A d \in CounterValues \cup {rd.count} :
              (c <= d /\ shouldTriggerIndexing(CacheAt(c), TD)) =>
                  shouldTriggerIndexing(CacheAt(d), TD)
        /\ \A c \in CounterValues \cup {rd.count} :
              c >= 10000 => shouldTriggerIndexing(CacheAt(c), TD)
        /\ rd.count >= 10000 => rd.scheduled

\* C39: the scheduling decision is monotone in the mutation counter: with the
\* cached snapshot of a tablet fixed, shouldTriggerIndexing true at a counter
\* is true at every greater counter, and it is true for every tablet once the
\* counter reaches 10000, whatever the size of the map; so a tablet that keeps
\* receiving mutations is eventually scheduled.
MutatedTabletEventuallyScheduled ==
    /\ []MonotoneInCounter
    /\ (rd.pc = "counting" /\ ~rd.scheduled) ~> (rd.pc = "counting" /\ rd.scheduled)

\* a table whose cached snapshot has more than 100000 rows is scheduled when
\* its counter reaches 10000
LargestScheduledAtTenThousand ==
    /\ rd.pc = "counting"
    /\ rd.cached /\ rd.rows = 100001
    /\ rd.count = 10000
    /\ rd.scheduled

=============================================================================
